---- MODULE Spec2Model ----
(***************************************************************************)
(* The adaptive mastery-and-scheduling engine of os-study:                 *)
(*   scripts/knowledge_tracker.py  (Bayesian Knowledge Tracing store)      *)
(*   scripts/spaced_scheduler.py   (SM-2 style review scheduler)           *)
(*                                                                         *)
(* Numbers.  Python floats are modelled in fixed point:                    *)
(*   probabilities  in units of 1/PScale          (PScale = 10000)         *)
(*   BKT parameters in tenths                      (0.1 -> 1)              *)
(*   ease factors   in hundredths                  (2.5 -> 250)            *)
(*   intervals and timestamps in thousandths of a day (1 day -> 1000)      *)
(*   interval noise in percent                     (0.05 -> 5)             *)
(* Divisions round down to the grid.                                       *)
(***************************************************************************)
EXTENDS Integers, Sequences, FiniteSets, TLC

VARIABLES
    progress,        \* progress.json: topic -> TopicState (the "topics" mapping)
    um_call,         \* a direct call of update_mastery: its arguments and return value
    schedule,        \* SpacedScheduler.schedule of the live scheduler object
    schedule_file,   \* schedule.json as last written by _save_schedule
    now,             \* datetime.now(), in thousandths of a day
    result,          \* what the last operation returned or raised, and the branch it took
    procs,           \* concurrent invocations: each one's position and the store it loaded
    locking,         \* the mutual exclusion the invocations run under ("none": the code as it is)
    completed,       \* how many invocations of each operation completed on each topic
    fault,           \* the shape of each persisted file: "ok", or what is wrong with it
    twin,            \* a second run of the scheduler, given the same operations: its schedule and clock
    streak           \* the correct answers each topic received in a row, up to its last Update

vars == <<progress, um_call, schedule, schedule_file, now, result,
          procs, locking, completed, fault, twin, streak>>

\* What the one-at-a-time operations on well-formed stores neither read nor write.
aux == <<procs, locking, completed, fault, twin, streak>>

Topics == {"t1", "t2"}

Max(a, b) == IF a >= b THEN a ELSE b
Min(a, b) == IF a <= b THEN a ELSE b

\* The empty mapping ({} in Python).
EmptyMap == [t \in {} |-> 0]

\* dict[key] = value on a mapping that may not hold key yet.
Put(m, k, v) == [x \in (DOMAIN m) \cup {k} |-> IF x = k THEN v ELSE m[x]]

\* del dict[key]
Del(m, k) == [x \in (DOMAIN m) \ {k} |-> m[x]]

NoResult == [op |-> "none"]

(***************************************************************************)
(* knowledge_tracker.py                                                    *)
(***************************************************************************)

\* Resolution of a probability: p_known = 0.3 is 3000.
PScale == 100 * 100

\* DEFAULT_PARAMS, in tenths.
ParamScale == 5 + 5
P_INIT == 3
P_LEARN == 1
P_SLIP == 1
P_GUESS == 2

\* MASTERY_THRESHOLD = 0.95
MASTERY_THRESHOLD == (95 * PScale) \div 100

\* The clamp of update_mastery: max(0.01, min(0.99, p)).
P_MIN == PScale \div 100
P_MAX == (99 * PScale) \div 100

\* return max(0.01, min(0.99, p_known_new))
ClampNoUpper(p) == Max(P_MIN, p)
Clamp(p) == Max(P_MIN, Min(P_MAX, p))

\* P(known | observation): the Bayes step of update_mastery, with its p_obs > 0 guard.
Posterior(p_known, is_correct) ==
    IF is_correct
    THEN LET num == p_known * (ParamScale - P_SLIP)
             p_obs == num + (PScale - p_known) * P_GUESS
         IN IF p_obs > 0 THEN (num * PScale) \div p_obs ELSE p_known
    ELSE LET num == p_known * P_SLIP
             p_obs == num + (PScale - p_known) * (ParamScale - P_GUESS)
         IN IF p_obs > 0 THEN (num * PScale) \div p_obs ELSE p_known

\* p_known_new = p_known_given_obs + (1 - p_known_given_obs) * p_learn
LearnNothing(post) == post
LearnHalf(post) == post + (PScale - post) \div 2
Learn(post) == post + ((PScale - post) * P_LEARN) \div ParamScale

update_mastery(p_known, is_correct) == Clamp(Learn(Posterior(p_known, is_correct)))

\* The record get_topic_state creates for a topic it has not seen.
DefaultTopicStateHalf ==
    [p_known |-> PScale \div 2, attempts |-> 0, correct |-> 0, difficulty |-> 1]
DefaultTopicState ==
    [p_known |-> (P_INIT * PScale) \div ParamScale, attempts |-> 0, correct |-> 0,
     difficulty |-> 1]

\* get_topic_state(progress, topic): get or initialize, in the loaded mapping.
get_topic_state(prog, topic) ==
    IF topic \in DOMAIN prog THEN prog ELSE Put(prog, topic, DefaultTopicState)

\* The difficulty adjustment of update_topic, on the counters already incremented.
\* success_rate > 0.8 is 10*correct > 8*attempts; success_rate < 0.5 is 2*correct < attempts.
AdjustDifficultyNoCap(s) ==
    IF s.attempts >= 3
    THEN IF 10 * s.correct > 8 * s.attempts
         THEN [s EXCEPT !.difficulty = @ + 1]
         ELSE IF 2 * s.correct < s.attempts /\ s.difficulty > 1
              THEN [s EXCEPT !.difficulty = @ - 1]
              ELSE s
    ELSE s
AdjustDifficultyInclusive(s) ==
    IF s.attempts >= 3
    THEN IF 10 * s.correct >= 8 * s.attempts /\ s.difficulty < 5
         THEN [s EXCEPT !.difficulty = @ + 1]
         ELSE IF 2 * s.correct < s.attempts /\ s.difficulty > 1
              THEN [s EXCEPT !.difficulty = @ - 1]
              ELSE s
    ELSE s
AdjustDifficulty(s) ==
    IF s.attempts >= 3
    THEN IF 10 * s.correct > 8 * s.attempts /\ s.difficulty < 5
         THEN [s EXCEPT !.difficulty = @ + 1]
         ELSE IF 2 * s.correct < s.attempts /\ s.difficulty > 1
              THEN [s EXCEPT !.difficulty = @ - 1]
              ELSE s
    ELSE s

\* The new TopicState update_topic stores for a topic.
UpdatedState(s, is_correct) ==
    AdjustDifficulty(
        [s EXCEPT !.p_known = update_mastery(s.p_known, is_correct),
                  !.attempts = @ + 1,
                  !.correct = IF is_correct THEN @ + 1 ELSE @])

\* Bound on the responses recorded per topic.
MaxAttempts == 5

\* update_topic(topic, is_correct): load, update, save, report.
UpdateTopic(topic, is_correct) ==
    LET loaded == get_topic_state(progress, topic)
        old == loaded[topic]
        new == UpdatedState(old, is_correct)
    IN /\ progress' = [loaded EXCEPT ![topic] = new]
       /\ result' = [op |-> "update", topic |-> topic, is_correct |-> is_correct,
                     old_mastery |-> old.p_known, new_mastery |-> new.p_known,
                     change |-> new.p_known - old.p_known,
                     mastered |-> new.p_known >= MASTERY_THRESHOLD,
                     attempts |-> new.attempts, difficulty |-> new.difficulty]
       /\ UNCHANGED <<um_call, schedule, schedule_file, now>>

\* What main finds in sys.argv[3]: words it takes for true, other spellings of true
\* and false, and words that are neither.
NoArgument == "<none>"
CorrectnessInputs == {"true", "1", "yes", "correct", "TRUE", "Yes",
                      "false", "0", "no", "FALSE", "maybe", ""}

\* str.lower() on those words.
Lower(word) ==
    CASE word = "TRUE" -> "true"
      [] word = "FALSE" -> "false"
      [] word = "Yes" -> "yes"
      [] OTHER -> word

\* is_correct = sys.argv[3].lower() in ("true", "1", "yes", "correct")
ParseCorrect(word) == Lower(word) \in {"true", "1", "yes", "correct"}

\* main, command "update": usage and exit 1 without the argument, else parse it and
\* call update_topic.
UpdateCommand(topic, word) ==
    IF word = NoArgument
    THEN /\ result' = [op |-> "update", topic |-> topic, status |-> "usage"]
         /\ UNCHANGED <<progress, um_call, schedule, schedule_file, now>>
    ELSE UpdateTopic(topic, ParseCorrect(word))

\* get_topic_mastery(topic): load, get or initialize, save, report.
GetTopicMasteryOverwriting(topic) ==
    /\ progress' = Put(progress, topic, DefaultTopicState)
    /\ result' = [op |-> "get", topic |-> topic, p_known |-> DefaultTopicState.p_known,
                  mastered |-> FALSE, attempts |-> 0, correct |-> 0, difficulty |-> 1]
    /\ UNCHANGED <<um_call, schedule, schedule_file, now>>
GetTopicMastery(topic) ==
    LET loaded == get_topic_state(progress, topic)
        state == loaded[topic]
    IN /\ progress' = loaded
       /\ result' = [op |-> "get", topic |-> topic, p_known |-> state.p_known,
                     mastered |-> state.p_known >= MASTERY_THRESHOLD,
                     attempts |-> state.attempts, correct |-> state.correct,
                     difficulty |-> state.difficulty]
       /\ UNCHANGED <<um_call, schedule, schedule_file, now>>

\* state.get(name, default)
Field(state, name, default) == IF name \in DOMAIN state THEN state[name] ELSE default

\* The p_known and attempts get_all_status and suggest_topic read from a record.
KnownOf(state) == Field(state, "p_known", DefaultTopicState.p_known)
TriedOf(state) == Field(state, "attempts", 0)

\* The status get_all_status gives one topic.
TopicStatusAttemptsFirst(state) ==
    IF TriedOf(state) > 0 THEN "in_progress"
    ELSE IF KnownOf(state) >= MASTERY_THRESHOLD THEN "mastered"
    ELSE "not_started"
TopicStatus(state) ==
    IF KnownOf(state) >= MASTERY_THRESHOLD THEN "mastered"
    ELSE IF TriedOf(state) > 0 THEN "in_progress"
    ELSE "not_started"

\* get_all_status(): load and count; nothing is saved.
GetAllStatus ==
    LET topics == progress
        count(st) == Cardinality({t \in DOMAIN topics : TopicStatus(topics[t]) = st})
    IN /\ result' = [op |-> "status", total_topics |-> Cardinality(DOMAIN topics),
                     mastered |-> count("mastered"),
                     in_progress |-> count("in_progress"),
                     not_started |-> count("not_started")]
       /\ UNCHANGED <<progress, um_call, schedule, schedule_file, now>>

\* The order of candidates.sort(key=lambda x: (x[1], x[2])): mastery, then attempts.
SortKeyAttemptsFirst(a, b) ==
    \/ TriedOf(a) < TriedOf(b)
    \/ TriedOf(a) = TriedOf(b) /\ KnownOf(a) <= KnownOf(b)
SortKey(a, b) ==
    \/ KnownOf(a) < KnownOf(b)
    \/ KnownOf(a) = KnownOf(b) /\ TriedOf(a) <= TriedOf(b)

\* The reason suggest_topic gives for its suggestion.
SuggestReason(mastery, attempts) ==
    IF 2 * mastery < PScale THEN "low_mastery"
    ELSE IF attempts < 3 THEN "few_attempts"
    ELSE "moderate_mastery"

\* suggest_topic(): load, keep the topics below the threshold, sort, take the first;
\* nothing is saved. The sort is stable, so among candidates equal in both mastery
\* and attempts the first in the file's order is taken: any of them here.
SuggestTopic ==
    LET topics == progress
        candidates == {t \in DOMAIN topics : KnownOf(topics[t]) < MASTERY_THRESHOLD}
        first == {t \in candidates : \A u \in candidates : SortKey(topics[t], topics[u])}
    IN /\ IF candidates = {}
          THEN result' = [op |-> "suggest", found |-> FALSE, suggestion |-> "None",
                          mastery |-> 0, attempts |-> 0, reason |-> "all_mastered"]
          ELSE \E t \in first :
                  result' = [op |-> "suggest", found |-> TRUE, suggestion |-> t,
                             mastery |-> KnownOf(topics[t]),
                             attempts |-> TriedOf(topics[t]),
                             reason |-> SuggestReason(KnownOf(topics[t]), TriedOf(topics[t]))]
       /\ UNCHANGED <<progress, um_call, schedule, schedule_file, now>>

\* update_mastery called directly on the arguments the run started with.
CallUpdateMastery ==
    /\ um_call.st = "pending"
    /\ um_call' = [um_call EXCEPT !.st = "returned",
                                  !.ret = update_mastery(um_call.p_known, um_call.is_correct)]
    /\ UNCHANGED <<progress, schedule, schedule_file, now, result>>

NoCall == [st |-> "none", p_known |-> 0, is_correct |-> FALSE, ret |-> 0]

\* Every probability in [0,1] of the grid, and both observations.
CallInputs ==
    [st : {"pending"}, p_known : 0..PScale, is_correct : BOOLEAN, ret : {0}]

(***************************************************************************)
(* spaced_scheduler.py                                                     *)
(***************************************************************************)

\* One day, in the unit of intervals and timestamps.
Day == 10 * 100

\* Resolution of an ease factor: 2.5 is 250.
EaseScale == 10 * 10

\* SM-2 constants, in hundredths.
DEFAULT_EASE_FACTOR == 250
MIN_EASE_FACTOR == 130
EASE_PENALTY == 20

\* NOISE_FACTOR = 0.05, in percent.
NOISE_FACTOR == 5

\* "Keep only last 20 reviews in history"
HISTORY_LIMIT == 20

\* last_review of a record never reviewed (None).
NoReview == -1

\* if not 0 <= quality <= 5: raise ValueError
QualityValidNoLower(quality) == quality <= 5
QualityValid(quality) == 0 <= quality /\ quality <= 5

\* The record _get_topic_data creates for a topic not in the schedule.
DefaultTopicData(t_now) ==
    [ease_factor |-> DEFAULT_EASE_FACTOR, interval |-> 0, repetitions |-> 0,
     next_review |-> t_now, last_review |-> NoReview, total_reviews |-> 0,
     quality_history |-> <<>>]

\* _get_topic_data(topic_id): get or initialize, in self.schedule.
get_topic_data(sched, topic_id, t_now) ==
    IF topic_id \in DOMAIN sched THEN sched ELSE Put(sched, topic_id, DefaultTopicData(t_now))

\* history[-20:] once the history is longer than 20.
LastN(h, n) == IF Len(h) > n THEN SubSeq(h, Len(h) - n + 1, Len(h)) ELSE h
TrimHistoryKeepOldest(h) == IF Len(h) > HISTORY_LIMIT THEN SubSeq(h, 1, HISTORY_LIMIT) ELSE h
TrimHistory(h) == IF Len(h) > HISTORY_LIMIT THEN LastN(h, HISTORY_LIMIT) ELSE h

\* The change of the ease factor: 0.1 - (5-q)*(0.08 + (5-q)*0.02), or -EASE_PENALTY.
EaseDeltaFlatBonus(quality) ==
    IF quality >= 4 THEN 10
    ELSE IF quality = 3 THEN 0
    ELSE 0 - EASE_PENALTY
EaseDelta(quality) ==
    IF quality >= 3
    THEN 10 - (5 - quality) * (8 + (5 - quality) * 2)
    ELSE 0 - EASE_PENALTY

\* topic["ease_factor"] = max(MIN_EASE_FACTOR, topic["ease_factor"])
ClampEaseNoFloor(ease) == ease
ClampEase(ease) == Max(MIN_EASE_FACTOR, ease)

\* _add_noise(interval) with the draw noise (percent): interval * (1 + noise).
AddNoise(interval, noise) == (interval * (100 + noise)) \div 100

\* next_interval before the noise, from the repetitions before they are incremented
\* and the ease factor already updated.
NextIntervalFromNewReps(topic, quality, ease) ==
    IF quality < 3 THEN Day
    ELSE IF topic.repetitions + 1 = 0 THEN Day
    ELSE IF topic.repetitions + 1 = 1 THEN 6 * Day
    ELSE (topic.interval * ease) \div EaseScale
NextIntervalKeepOnFail(topic, quality, ease) ==
    IF quality < 3 /\ topic.repetitions < 2 THEN Day
    ELSE IF topic.repetitions = 0 THEN Day
    ELSE IF topic.repetitions = 1 THEN 6 * Day
    ELSE (topic.interval * ease) \div EaseScale
NextInterval(topic, quality, ease) ==
    IF quality < 3 THEN Day
    ELSE IF topic.repetitions = 0 THEN Day
    ELSE IF topic.repetitions = 1 THEN 6 * Day
    ELSE (topic.interval * ease) \div EaseScale

\* topic["repetitions"] after the review.
NextRepetitionsKeepOnFail(topic, quality) == topic.repetitions + (IF quality < 3 THEN 0 ELSE 1)
NextRepetitions(topic, quality) == IF quality < 3 THEN 0 ELSE topic.repetitions + 1

\* The body of review() on the topic's record, at time t_now with noise draw noise.
ReviewRecordByLateness(topic, quality, t_now, noise) ==
    LET ease == ClampEase(topic.ease_factor + EaseDelta(quality))
        next_interval == AddNoise(NextInterval(topic, quality, ease), noise)
    IN [ease_factor |-> ease,
        interval |-> next_interval,
        repetitions |-> IF t_now < topic.next_review
                        THEN topic.repetitions
                        ELSE NextRepetitions(topic, quality),
        next_review |-> t_now + next_interval,
        last_review |-> t_now,
        total_reviews |-> topic.total_reviews + 1,
        quality_history |->
            TrimHistory(Append(topic.quality_history,
                               [quality |-> quality, timestamp |-> t_now]))]
ReviewRecord(topic, quality, t_now, noise) ==
    LET ease == ClampEase(topic.ease_factor + EaseDelta(quality))
        next_interval == AddNoise(NextInterval(topic, quality, ease), noise)
    IN [ease_factor |-> ease,
        interval |-> next_interval,
        repetitions |-> NextRepetitions(topic, quality),
        next_review |-> t_now + next_interval,
        last_review |-> t_now,
        total_reviews |-> topic.total_reviews + 1,
        quality_history |->
            TrimHistory(Append(topic.quality_history,
                               [quality |-> quality, timestamp |-> t_now]))]

\* review(topic_id, quality), with the noise random.uniform drew.
Review(topic_id, quality, noise) ==
    IF ~QualityValid(quality)
    THEN /\ result' = [op |-> "review", topic_id |-> topic_id, quality |-> quality,
                       status |-> "ValueError"]
         /\ UNCHANGED <<progress, um_call, schedule, schedule_file, now>>
    ELSE LET got == get_topic_data(schedule, topic_id, now)
             new == ReviewRecord(got[topic_id], quality, now, noise)
         IN /\ schedule' = [got EXCEPT ![topic_id] = new]
            /\ schedule_file' = schedule'
            /\ result' = [op |-> "review", topic_id |-> topic_id, quality |-> quality,
                          status |-> "ok", repetitions |-> new.repetitions,
                          total_reviews |-> new.total_reviews,
                          next_review |-> new.next_review]
            /\ UNCHANGED <<progress, um_call, now>>

\* The mean of the last five qualities only.
AverageQualityRecent(h) ==
    LET r == LastN(h, 5)
        sum[i \in 0..Len(r)] == IF i = 0 THEN 0 ELSE sum[i - 1] + r[i].quality
    IN IF Len(r) = 0 THEN 0 ELSE (2 * 100 * sum[Len(r)] + Len(r)) \div (2 * Len(r))
\* round(sum / len, 2), in hundredths. A tie (an exact multiple of 0.005) goes to
\* the even hundredth, as round() does.
AverageQuality(h) ==
    LET sum[i \in 0..Len(h)] == IF i = 0 THEN 0 ELSE sum[i - 1] + h[i].quality
        n == Len(h)
        q == (100 * sum[n]) \div n
        r == (100 * sum[n]) % n
    IN IF n = 0 THEN 0
       ELSE IF 2 * r < n THEN q
       ELSE IF 2 * r > n THEN q + 1
       ELSE IF q % 2 = 0 THEN q ELSE q + 1

\* get_stats(topic_id): None for a topic not in the schedule; nothing is created or saved.
GetStatsCreating(topic_id) ==
    /\ schedule' = get_topic_data(schedule, topic_id, now)
    /\ result' = [op |-> "stats", topic_id |-> topic_id, found |-> TRUE,
                  ease_factor |-> schedule'[topic_id].ease_factor,
                  interval |-> schedule'[topic_id].interval,
                  repetitions |-> schedule'[topic_id].repetitions,
                  total_reviews |-> schedule'[topic_id].total_reviews]
    /\ UNCHANGED <<progress, um_call, schedule_file, now>>
GetStatsDueNow(topic_id) ==
    /\ result' =
         IF topic_id \notin DOMAIN schedule
         THEN [op |-> "stats", topic_id |-> topic_id, found |-> FALSE]
         ELSE LET topic == schedule[topic_id]
              IN [op |-> "stats", topic_id |-> topic_id, found |-> TRUE,
                  ease_factor |-> topic.ease_factor,
                  interval |-> topic.interval,
                  repetitions |-> topic.repetitions,
                  total_reviews |-> topic.total_reviews,
                  average_quality |-> AverageQuality(topic.quality_history),
                  status |-> IF topic.next_review - now <= 0 THEN "overdue" ELSE "upcoming",
                  last_review |-> topic.last_review,
                  recent_quality |->
                      [i \in 1..Len(LastN(topic.quality_history, 5)) |->
                          LastN(topic.quality_history, 5)[i].quality]]
    /\ UNCHANGED <<progress, um_call, schedule, schedule_file, now>>
GetStats(topic_id) ==
    /\ result' =
         IF topic_id \notin DOMAIN schedule
         THEN [op |-> "stats", topic_id |-> topic_id, found |-> FALSE]
         ELSE LET topic == schedule[topic_id]
              IN [op |-> "stats", topic_id |-> topic_id, found |-> TRUE,
                  ease_factor |-> topic.ease_factor,
                  interval |-> topic.interval,
                  repetitions |-> topic.repetitions,
                  total_reviews |-> topic.total_reviews,
                  average_quality |-> AverageQuality(topic.quality_history),
                  status |-> IF topic.next_review - now < 0 THEN "overdue" ELSE "upcoming",
                  last_review |-> topic.last_review,
                  recent_quality |->
                      [i \in 1..Len(LastN(topic.quality_history, 5)) |->
                          LastN(topic.quality_history, 5)[i].quality]]
    /\ UNCHANGED <<progress, um_call, schedule, schedule_file, now>>

\* reset_topic(topic_id): delete the record and save, when there is one.
ResetTopicToDefaults(topic_id) ==
    /\ IF topic_id \in DOMAIN schedule
       THEN /\ schedule' = [schedule EXCEPT ![topic_id] = DefaultTopicData(now)]
            /\ schedule_file' = schedule'
       ELSE UNCHANGED <<schedule, schedule_file>>
    /\ result' = [op |-> "reset", topic_id |-> topic_id,
                  deleted |-> topic_id \in DOMAIN schedule]
    /\ UNCHANGED <<progress, um_call, now>>
ResetTopicClearing(topic_id) ==
    /\ IF topic_id \in DOMAIN schedule
       THEN /\ schedule' = EmptyMap
            /\ schedule_file' = schedule'
       ELSE UNCHANGED <<schedule, schedule_file>>
    /\ result' = [op |-> "reset", topic_id |-> topic_id,
                  deleted |-> topic_id \in DOMAIN schedule]
    /\ UNCHANGED <<progress, um_call, now>>
ResetTopic(topic_id) ==
    /\ IF topic_id \in DOMAIN schedule
       THEN /\ schedule' = Del(schedule, topic_id)
            /\ schedule_file' = schedule'
       ELSE UNCHANGED <<schedule, schedule_file>>
    /\ result' = [op |-> "reset", topic_id |-> topic_id,
                  deleted |-> topic_id \in DOMAIN schedule]
    /\ UNCHANGED <<progress, um_call, now>>

\* The orders a dict of these keys can have when iterated: insertion order in a live
\* object, key order after a reload of the file (written with sort_keys=True).
Orders(keys) ==
    {order \in [1..Cardinality(keys) -> keys] :
        \A i, j \in 1..Cardinality(keys) : order[i] = order[j] => i = j}

\* limit=None of get_due_topics.
NoLimit == -1

\* if next_review <= now
IsDueStrict(next_review, t_now) == next_review < t_now
IsDue(next_review, t_now) == next_review <= t_now

\* The loop of get_due_topics: the (topic_id, next_review) pairs due, in dict order.
DueEntries(order, sched, t_now) ==
    SelectSeq([i \in DOMAIN order |-> <<order[i], sched[order[i]].next_review>>],
              LAMBDA e : IsDue(e[2], t_now))

\* One step of the stable sort: x goes behind every entry that is not later than it.
InsertByDate(sorted, x) ==
    LET k == Cardinality({i \in DOMAIN sorted : sorted[i][2] <= x[2]})
    IN SubSeq(sorted, 1, k) \o <<x>> \o SubSeq(sorted, k + 1, Len(sorted))

\* due.sort(key=lambda x: x[1])
SortByDateKeepOrder(entries) == entries
RECURSIVE SortByDate(_)
SortByDate(entries) ==
    IF entries = <<>> THEN <<>>
    ELSE InsertByDate(SortByDate(SubSeq(entries, 1, Len(entries) - 1)),
                      entries[Len(entries)])

\* if limit: due = due[:limit]   (None and 0 are both false)
CapTo(entries, limit) ==
    IF limit # NoLimit /\ limit # 0
    THEN SubSeq(entries, 1, Min(limit, Len(entries)))
    ELSE entries

\* get_due_topics(limit): nothing is created or saved.
GetDueTopics(limit) ==
    /\ \E order \in Orders(DOMAIN schedule) :
          result' = [op |-> "due", limit |-> limit,
                     due |-> CapTo(SortByDate(DueEntries(order, schedule, now)), limit)]
    /\ UNCHANGED <<progress, um_call, schedule, schedule_file, now>>

\* get_next_topic() without the test for an empty list, and returning the last entry.
GetNextTopicUnchecked ==
    /\ \E order \in Orders(DOMAIN schedule) :
          LET due_topics == CapTo(SortByDate(DueEntries(order, schedule, now)), NoLimit)
          IN result' = IF due_topics = <<>>
                       THEN [op |-> "next", status |-> "IndexError"]
                       ELSE [op |-> "next", found |-> TRUE, topic_id |-> due_topics[1][1]]
    /\ UNCHANGED <<progress, um_call, schedule, schedule_file, now>>
GetNextTopicLatest ==
    /\ \E order \in Orders(DOMAIN schedule) :
          LET due_topics == CapTo(SortByDate(DueEntries(order, schedule, now)), NoLimit)
          IN result' = IF due_topics = <<>>
                       THEN [op |-> "next", found |-> FALSE]
                       ELSE [op |-> "next", found |-> TRUE,
                             topic_id |-> due_topics[Len(due_topics)][1]]
    /\ UNCHANGED <<progress, um_call, schedule, schedule_file, now>>

\* get_next_topic(): the head of the due list, or None; nothing is created or saved.
GetNextTopic ==
    /\ \E order \in Orders(DOMAIN schedule) :
          LET due_topics == CapTo(SortByDate(DueEntries(order, schedule, now)), NoLimit)
          IN result' = IF due_topics = <<>>
                       THEN [op |-> "next", found |-> FALSE]
                       ELSE [op |-> "next", found |-> TRUE, topic_id |-> due_topics[1][1]]
    /\ UNCHANGED <<progress, um_call, schedule, schedule_file, now>>

\* limit=10 of get_upcoming_topics, and days=7 of get_review_queue.
DEFAULT_UPCOMING_LIMIT == 10
QUEUE_DAYS == 7

\* if now < next_review <= cutoff, with cutoff = now + timedelta(days=days)
\* (InWindowClosed: the window with its lower end included)
InWindowClosed(next_review, t_now, days) ==
    t_now <= next_review /\ next_review <= t_now + days * Day
InWindow(next_review, t_now, days) ==
    t_now < next_review /\ next_review <= t_now + days * Day

\* The loop of get_upcoming_topics: the (topic_id, next_review) pairs in the window,
\* in dict order.
UpcomingEntries(order, sched, t_now, days) ==
    SelectSeq([i \in DOMAIN order |-> <<order[i], sched[order[i]].next_review>>],
              LAMBDA e : InWindow(e[2], t_now, days))

\* upcoming.sort(key=lambda x: x[1]); return upcoming[:limit] if limit else upcoming
UpcomingList(order, sched, t_now, days, limit) ==
    CapTo(SortByDate(UpcomingEntries(order, sched, t_now, days)), limit)

\* get_upcoming_topics(days, limit): nothing is created or saved.
GetUpcomingTopics(days, limit) ==
    /\ \E order \in Orders(DOMAIN schedule) :
          result' = [op |-> "upcoming", days |-> days, limit |-> limit,
                     upcoming |-> UpcomingList(order, schedule, now, days, limit)]
    /\ UNCHANGED <<progress, um_call, schedule, schedule_file, now>>

\* The topic names of the larger runs, in the order sort_keys=True writes them.
ManyTopics == <<"t01", "t02", "t03", "t04", "t05", "t06", "t07", "t08", "t09", "t10",
                "t11", "t12">>

\* The order of a dict loaded from the file.
KeyOrder(keys) == SelectSeq(ManyTopics, LAMBDA t : t \in keys)

\* The command `upcoming [days]`: a fresh SpacedScheduler loads the file and
\* get_upcoming_topics(days=days) runs with its default limit.
UpcomingCommand(days) ==
    /\ result' = [op |-> "upcoming", days |-> days, limit |-> DEFAULT_UPCOMING_LIMIT,
                  upcoming |-> UpcomingList(KeyOrder(DOMAIN schedule_file), schedule_file,
                                            now, days, DEFAULT_UPCOMING_LIMIT)]
    /\ schedule' = schedule_file
    /\ UNCHANGED <<progress, um_call, schedule_file, now>>

\* One entry of the review queue: the stats of the topic (its identity, date and
\* status are kept here) with the priority tag.
QueueEntry(topic_id, priority) ==
    [topic_id |-> topic_id, priority |-> priority,
     next_review |-> schedule[topic_id].next_review,
     status |-> IF schedule[topic_id].next_review - now < 0 THEN "overdue" ELSE "upcoming"]

\* The queue without the limit applied.
GetReviewQueueUncut(limit) ==
    /\ \E order \in Orders(DOMAIN schedule) :
          LET due == CapTo(SortByDate(DueEntries(order, schedule, now)), NoLimit)
              upcoming == UpcomingList(order, schedule, now, QUEUE_DAYS, NoLimit)
          IN result' = [op |-> "queue", limit |-> limit,
                        queue |-> [i \in DOMAIN due |-> QueueEntry(due[i][1], "overdue")]
                                  \o [i \in DOMAIN upcoming |->
                                         QueueEntry(upcoming[i][1], "upcoming")]]
    /\ UNCHANGED <<progress, um_call, schedule, schedule_file, now>>

\* get_review_queue(limit): every due topic, then upcoming topics of the next seven
\* days while the limit leaves room, cut to the limit; nothing is created or saved.
GetReviewQueue(limit) ==
    /\ \E order \in Orders(DOMAIN schedule) :
          LET due == CapTo(SortByDate(DueEntries(order, schedule, now)), NoLimit)
              upcoming == IF Len(due) < limit
                          THEN UpcomingList(order, schedule, now, QUEUE_DAYS, limit - Len(due))
                          ELSE <<>>
              queue == [i \in DOMAIN due |-> QueueEntry(due[i][1], "overdue")]
                       \o [i \in DOMAIN upcoming |-> QueueEntry(upcoming[i][1], "upcoming")]
          IN result' = [op |-> "queue", limit |-> limit,
                        queue |-> SubSeq(queue, 1, Min(limit, Len(queue)))]
    /\ UNCHANGED <<progress, um_call, schedule, schedule_file, now>>

\* The smallest step of the clock these runs tell apart.
Moment == 1

\* limit=10 of get_review_queue.
DEFAULT_QUEUE_LIMIT == 10

\* One entry of the review queue, its stats read at time t_stats.
QueueEntryAt(topic_id, priority, t_stats) ==
    [topic_id |-> topic_id, priority |-> priority,
     next_review |-> schedule[topic_id].next_review,
     status |-> IF schedule[topic_id].next_review - t_stats < 0 THEN "overdue" ELSE "upcoming"]

\* get_review_queue(limit) with its clock readings told apart: get_due_topics reads
\* the clock when the call starts, get_upcoming_topics reads it d later, and the
\* stats of the due topics are read at a time in between. The result also records
\* when the call started.
GetReviewQueueTimed(limit, d) ==
    /\ \E order \in Orders(DOMAIN schedule), t_stats \in {now, now + d} :
          LET due == CapTo(SortByDate(DueEntries(order, schedule, now)), NoLimit)
              upcoming == IF Len(due) < limit
                          THEN UpcomingList(order, schedule, now + d, QUEUE_DAYS,
                                            limit - Len(due))
                          ELSE <<>>
              queue == [i \in DOMAIN due |-> QueueEntryAt(due[i][1], "overdue", t_stats)]
                       \o [i \in DOMAIN upcoming |->
                              QueueEntryAt(upcoming[i][1], "upcoming", now + d)]
          IN result' = [op |-> "queue", limit |-> limit, started |-> now,
                        queue |-> SubSeq(queue, 1, Min(limit, Len(queue)))]
    /\ now' = now + d
    /\ UNCHANGED <<progress, um_call, schedule, schedule_file>>

\* The wall clock advances between operations.
Tick(d) ==
    /\ now' = now + d
    /\ UNCHANGED <<progress, um_call, schedule, schedule_file, result>>

(***************************************************************************)
(* The operations on files that may be damaged                             *)
(***************************************************************************)

\* json.load raises on a file that is not JSON.
UnparseableNever(shape) == FALSE
Unparseable(shape) == shape = "unparseable"

\* An exception leaves the operation: nothing was saved.
Raise(op, topic, error) ==
    /\ result' = [op |-> op, topic |-> topic, status |-> error]
    /\ UNCHANGED <<progress, um_call, schedule, schedule_file, now, aux>>

\* state["p_known"] or state["attempts"] raises KeyError on a record without it.
\* (The records of the damaged files considered here lack no other field.)
LacksField(prog, topic) ==
    /\ topic \in DOMAIN prog
    /\ ~({"p_known", "attempts"} \subseteq DOMAIN prog[topic])

\* save_progress writes {"topics": ...}: the file has its topics mapping from then on.
SavedProgress ==
    /\ fault' = [fault EXCEPT !.progress = "ok"]
    /\ UNCHANGED <<procs, locking, completed, twin, streak>>

\* update_topic on whatever progress.json holds. A file without "topics" loads as a
\* dict in which get_topic_state creates the mapping.
UpdateTopicAnyFile(topic, is_correct) ==
    IF Unparseable(fault.progress) THEN Raise("update", topic, "JSONDecodeError")
    ELSE IF LacksField(progress, topic) THEN Raise("update", topic, "KeyError")
    ELSE UpdateTopic(topic, is_correct) /\ SavedProgress

\* get_topic_mastery on whatever progress.json holds. On a record lacking a field it
\* saves what it loaded and then raises.
GetTopicMasteryAnyFile(topic) ==
    IF Unparseable(fault.progress) THEN Raise("get", topic, "JSONDecodeError")
    ELSE IF LacksField(progress, topic) THEN Raise("get", topic, "KeyError")
    ELSE GetTopicMastery(topic) /\ SavedProgress

\* get_all_status on whatever progress.json holds: progress.get("topics", {}) and
\* state.get(...) put defaults where the mapping or a field is missing.
GetAllStatusAnyFile ==
    IF Unparseable(fault.progress) THEN Raise("status", "", "JSONDecodeError")
    ELSE GetAllStatus /\ UNCHANGED aux

\* suggest_topic on whatever progress.json holds, with the same defaults.
SuggestTopicAnyFile ==
    IF Unparseable(fault.progress) THEN Raise("suggest", "", "JSONDecodeError")
    ELSE SuggestTopic /\ UNCHANGED aux

\* main of spaced_scheduler.py: SpacedScheduler() loads schedule.json before the
\* command is looked at.
ReviewAnyFile(topic_id, quality, noise) ==
    IF Unparseable(fault.schedule) THEN Raise("review", topic_id, "JSONDecodeError")
    ELSE Review(topic_id, quality, noise) /\ UNCHANGED aux

GetStatsAnyFile(topic_id) ==
    IF Unparseable(fault.schedule) THEN Raise("stats", topic_id, "JSONDecodeError")
    ELSE GetStats(topic_id) /\ UNCHANGED aux

GetDueTopicsAnyFile ==
    IF Unparseable(fault.schedule) THEN Raise("due", "", "JSONDecodeError")
    ELSE GetDueTopics(NoLimit) /\ UNCHANGED aux

ResetTopicAnyFile(topic_id) ==
    IF Unparseable(fault.schedule) THEN Raise("reset", topic_id, "JSONDecodeError")
    ELSE ResetTopic(topic_id) /\ UNCHANGED aux

(***************************************************************************)
(* Invocations running at the same time                                    *)
(*                                                                         *)
(* Each command is a process of its own.  update_topic reads progress.json *)
(* at its first line and writes it at its last; a review reads             *)
(* schedule.json when its SpacedScheduler is constructed and writes it at  *)
(* the end of review.  Another process can run between the two.            *)
(***************************************************************************)

Procs == {"p1", "p2"}

Idle == [pc |-> "idle", kind |-> "none", topic |-> "", is_correct |-> FALSE,
         quality |-> 0, local |-> EmptyMap]

\* The interleavings considered: all of them ("none", the code as it is), or only
\* those in which the invocations naming one topic, or the invocations on one store,
\* never overlap between their load and their save.
LockModes == {"none", "topic", "store"}

CanEnter(p, kind, topic) ==
    \A q \in Procs \ {p} :
        procs[q].pc = "loaded" =>
            CASE locking = "topic" -> procs[q].topic # topic
              [] locking = "store" -> procs[q].kind # kind
              [] OTHER -> TRUE

Completed(p, kind, topic) ==
    /\ procs' = [procs EXCEPT ![p].pc = "done"]
    /\ completed' = [completed EXCEPT ![<<kind, topic>>] = @ + 1]

\* update_topic, first line: progress = load_progress()
BeginUpdate(p, topic, is_correct) ==
    /\ procs[p].pc # "loaded"
    /\ CanEnter(p, "update", topic)
    /\ procs' = [procs EXCEPT ![p] = [pc |-> "loaded", kind |-> "update", topic |-> topic,
                                      is_correct |-> is_correct, quality |-> 0,
                                      local |-> progress]]
    /\ UNCHANGED <<progress, um_call, schedule, schedule_file, now, result,
                   locking, completed, fault, twin, streak>>

\* update_topic, the rest: update the loaded dict and save_progress(progress).
FinishUpdateReloading(p) ==
    /\ procs[p].pc = "loaded" /\ procs[p].kind = "update"
    /\ LET topic == procs[p].topic
           loaded == get_topic_state(progress, topic)
       IN /\ progress' = [loaded EXCEPT ![topic] = UpdatedState(@, procs[p].is_correct)]
          /\ Completed(p, "update", topic)
    /\ UNCHANGED <<um_call, schedule, schedule_file, now, result, locking, fault, twin, streak>>
FinishUpdate(p) ==
    /\ procs[p].pc = "loaded" /\ procs[p].kind = "update"
    /\ LET topic == procs[p].topic
           loaded == get_topic_state(procs[p].local, topic)
       IN /\ progress' = [loaded EXCEPT ![topic] = UpdatedState(@, procs[p].is_correct)]
          /\ Completed(p, "update", topic)
    /\ UNCHANGED <<um_call, schedule, schedule_file, now, result, locking, fault, twin, streak>>

\* SpacedScheduler(): self.schedule = self._load_schedule()
BeginReview(p, topic_id, quality) ==
    /\ procs[p].pc # "loaded"
    /\ CanEnter(p, "review", topic_id)
    /\ procs' = [procs EXCEPT ![p] = [pc |-> "loaded", kind |-> "review", topic |-> topic_id,
                                      is_correct |-> FALSE, quality |-> quality,
                                      local |-> schedule_file]]
    /\ UNCHANGED <<progress, um_call, schedule, schedule_file, now, result,
                   locking, completed, fault, twin, streak>>

\* review(topic_id, quality) on the scheduler's own self.schedule, ending in _save_schedule().
FinishReviewUnsaved(p, noise) ==
    /\ procs[p].pc = "loaded" /\ procs[p].kind = "review"
    /\ Completed(p, "review", procs[p].topic)
    /\ UNCHANGED <<progress, um_call, schedule, schedule_file, now, result, locking, fault, twin, streak>>
FinishReview(p, noise) ==
    /\ procs[p].pc = "loaded" /\ procs[p].kind = "review"
    /\ LET topic_id == procs[p].topic
           got == get_topic_data(procs[p].local, topic_id, now)
       IN /\ schedule_file' =
                [got EXCEPT ![topic_id] = ReviewRecord(@, procs[p].quality, now, noise)]
          /\ Completed(p, "review", topic_id)
    /\ UNCHANGED <<progress, um_call, schedule, now, result, locking, fault, twin, streak>>

(***************************************************************************)
(* Runs                                                                    *)
(***************************************************************************)

\* The quality ratings a caller passes: every valid one and the nearest invalid ones.
QualityInputs == (0 - 1)..6

\* The noise random.uniform(-NOISE_FACTOR, NOISE_FACTOR) draws: the two ends and the middle.
NoiseDraws == {0 - NOISE_FACTOR, 0, NOISE_FACTOR}

\* Bound on the reviews a topic takes after its record is created, and after the
\* history a run starts with.
MaxReviews == 3

\* Length of the history a run may start with: one review a day.
WarmReviews == 19

\* Bound on the successful reviews that end the history a run may start with.
WarmPasses == 3

\* Bound on the days the clock advances in a run.
MaxDays == 1

\* The qualities of the reviews of that history: the highest failing quality, and a
\* successful one.
WarmFailQuality == 3 - 1
WarmPassQuality == 3 + 1

\* The record after n reviews, one a day from day 1, without noise: the last k of
\* quality WarmPassQuality, the ones before of quality WarmFailQuality.
RECURSIVE ReviewUpTo(_, _, _)
ReviewUpTo(topic, n, k) ==
    IF topic.total_reviews = n THEN topic
    ELSE LET i == topic.total_reviews + 1
         IN ReviewUpTo(ReviewRecord(topic,
                                    IF i > n - k THEN WarmPassQuality ELSE WarmFailQuality,
                                    i * Day, 0),
                       n, k)

WarmRecord(n, k) == ReviewUpTo(DefaultTopicData(Day), n, k)

StartTime == WarmReviews * Day

ReviewsOf(t) == IF t \in DOMAIN schedule THEN schedule[t].total_reviews ELSE 0

\* Whether the bounds leave topic t another review.
ReviewAllowed(t) ==
    \/ ReviewsOf(t) < MaxReviews
    \/ ReviewsOf(t) >= WarmReviews /\ ReviewsOf(t) < WarmReviews + MaxReviews

\* No concurrent invocation, and both files well-formed.
NoTwin == [schedule |-> EmptyMap, now |-> 0]
NoStreak == [t \in {} |-> 0]

InitAux ==
    /\ procs = [p \in {} |-> 0]
    /\ locking = "none"
    /\ completed = [k \in {} |-> 0]
    /\ fault = [progress |-> "ok", schedule |-> "ok"]
    /\ twin = NoTwin
    /\ streak = NoStreak

InitMasteryStore ==
    /\ progress = EmptyMap
    /\ um_call = NoCall
    /\ InitAux

InitSchedulerStore ==
    /\ schedule = EmptyMap
    /\ schedule_file = EmptyMap
    /\ now = StartTime

\* A run is either a sequence of operations on an empty mastery store, or one
\* direct call of update_mastery.
InitMastery ==
    /\ progress = EmptyMap
    /\ um_call \in {NoCall} \cup CallInputs
    /\ result = NoResult
    /\ InitSchedulerStore
    /\ InitAux

\* The responses recorded for a topic so far.
AttemptsOf(t) == IF t \in DOMAIN progress THEN progress[t].attempts ELSE 0

StoreRun == um_call.st = "none"

NextMastery ==
    \/ \E t \in Topics, c \in BOOLEAN :
          StoreRun /\ AttemptsOf(t) < MaxAttempts /\ UpdateTopic(t, c) /\ UNCHANGED aux
    \/ \E t \in Topics : StoreRun /\ GetTopicMastery(t) /\ UNCHANGED aux
    \/ StoreRun /\ GetAllStatus /\ UNCHANGED aux
    \/ StoreRun /\ SuggestTopic /\ UNCHANGED aux
    \/ CallUpdateMastery /\ UNCHANGED aux

SpecMastery == InitMastery /\ [][NextMastery]_vars

\* The mastery store on one topic, with enough answers for the difficulty to reach
\* its cap: it rises once per answer from the third on.
DrillTopic == "t1"
MaxDrillAttempts == 7

InitDrill ==
    /\ InitMasteryStore
    /\ InitSchedulerStore
    /\ result = NoResult

NextDrill ==
    \/ \E c \in BOOLEAN :
          AttemptsOf(DrillTopic) < MaxDrillAttempts /\ UpdateTopic(DrillTopic, c) /\ UNCHANGED aux
    \/ GetTopicMastery(DrillTopic) /\ UNCHANGED aux
    \/ GetAllStatus /\ UNCHANGED aux
    \/ SuggestTopic /\ UNCHANGED aux

SpecDrill == InitDrill /\ [][NextDrill]_vars

\* The mastery commands as main receives them, with the correctness argument as typed.
MaxCommandUpdates == 2

InitCommands ==
    /\ InitMasteryStore
    /\ InitSchedulerStore
    /\ result = NoResult

NextCommands ==
    \/ \E t \in Topics, word \in CorrectnessInputs \cup {NoArgument} :
          AttemptsOf(t) < MaxCommandUpdates /\ UpdateCommand(t, word) /\ UNCHANGED aux
    \/ \E t \in Topics : GetTopicMastery(t) /\ UNCHANGED aux
    \/ GetAllStatus /\ UNCHANGED aux
    \/ SuggestTopic /\ UNCHANGED aux

SpecCommands == InitCommands /\ [][NextCommands]_vars

\* The scheduler on one topic.
ChainTopic == "t1"

\* The run starts with an empty schedule and takes every rating.
InitChain ==
    /\ InitMasteryStore
    /\ InitSchedulerStore
    /\ result = NoResult

NextChain ==
    \/ \E q \in QualityInputs, u \in NoiseDraws :
          ReviewsOf(ChainTopic) < MaxReviews /\ Review(ChainTopic, q, u) /\ UNCHANGED aux
    \/ GetStats(ChainTopic) /\ UNCHANGED aux
    \/ ResetTopic(ChainTopic) /\ UNCHANGED aux
    \/ now < StartTime + MaxDays * Day /\ Tick(Day) /\ UNCHANGED aux

SpecChain == InitChain /\ [][NextChain]_vars

\* The ratings of a run that starts with a long history: one failing, the lowest and
\* the highest successful, and the nearest invalid ones.
WarmInputs == {0 - 1, WarmFailQuality, 3, 5, 6}

\* The run starts with the topic already reviewed WarmReviews times, the last
\* 0..WarmPasses of them successfully.
InitWarm ==
    /\ InitMasteryStore
    /\ result = NoResult
    /\ now = StartTime
    /\ schedule \in {Put(EmptyMap, ChainTopic, WarmRecord(WarmReviews, k)) : k \in 0..WarmPasses}
    /\ schedule_file = schedule

NextWarm ==
    \/ \E q \in WarmInputs, u \in NoiseDraws :
          ReviewAllowed(ChainTopic) /\ Review(ChainTopic, q, u) /\ UNCHANGED aux
    \/ GetStats(ChainTopic) /\ UNCHANGED aux
    \/ ResetTopic(ChainTopic) /\ UNCHANGED aux
    \/ now < StartTime + MaxDays * Day /\ Tick(Day) /\ UNCHANGED aux

SpecWarm == InitWarm /\ [][NextWarm]_vars

\* Runs that start from damaged files: progress.json not JSON, or JSON without the
\* "topics" mapping, or with a record of t1 that lacks p_known or attempts;
\* schedule.json not JSON.
MaxDamagedUpdates == 2
MaxDamagedReviews == 1

DamagedRecords ==
    {[attempts |-> 2, correct |-> 1, difficulty |-> 1],
     [p_known |-> DefaultTopicState.p_known, correct |-> 0, difficulty |-> 1]}

InitDamaged ==
    /\ um_call = NoCall
    /\ result = NoResult
    /\ InitSchedulerStore
    /\ procs = [p \in {} |-> 0]
    /\ locking = "none"
    /\ completed = [k \in {} |-> 0]
    /\ fault \in [progress : {"ok", "unparseable", "no_topics"}, schedule : {"ok", "unparseable"}]
    /\ twin = NoTwin
    /\ streak = NoStreak
    /\ IF fault.progress = "ok"
       THEN progress \in {Put(EmptyMap, "t1", r) : r \in DamagedRecords}
       ELSE progress = EmptyMap

\* The answers recorded for a topic, as far as the record tells.
TriedIn(t) == IF t \in DOMAIN progress THEN TriedOf(progress[t]) ELSE 0

NextDamaged ==
    \/ \E t \in Topics, c \in BOOLEAN :
          TriedIn(t) < MaxDamagedUpdates /\ UpdateTopicAnyFile(t, c)
    \/ \E t \in Topics : GetTopicMasteryAnyFile(t)
    \/ GetAllStatusAnyFile
    \/ SuggestTopicAnyFile
    \/ \E q \in {WarmFailQuality, WarmPassQuality} :
          ReviewsOf(ChainTopic) < MaxDamagedReviews /\ ReviewAnyFile(ChainTopic, q, 0)
    \/ GetStatsAnyFile(ChainTopic)
    \/ GetDueTopicsAnyFile
    \/ ResetTopicAnyFile(ChainTopic)

SpecDamaged == InitDamaged /\ [][NextDamaged]_vars

\* Two processes, each running one command after another, under each of the three
\* kinds of interleaving.
MaxInvocations == 4

InitRace ==
    /\ progress = EmptyMap
    /\ um_call = NoCall
    /\ InitSchedulerStore
    /\ result = NoResult
    /\ procs = [p \in Procs |-> Idle]
    /\ locking \in LockModes
    /\ completed = [k \in {"update", "review"} \X Topics |-> 0]
    /\ fault = [progress |-> "ok", schedule |-> "ok"]
    /\ twin = NoTwin
    /\ streak = NoStreak

\* The invocations begun so far.
RECURSIVE SumOf(_, _)
SumOf(f, keys) ==
    IF keys = {} THEN 0
    ELSE LET k == CHOOSE x \in keys : TRUE IN f[k] + SumOf(f, keys \ {k})

Begun == SumOf(completed, DOMAIN completed)
           + Cardinality({p \in Procs : procs[p].pc = "loaded"})

NextRace ==
    \/ \E p \in Procs, t \in Topics, c \in BOOLEAN :
          Begun < MaxInvocations /\ BeginUpdate(p, t, c)
    \/ \E p \in Procs : FinishUpdate(p)
    \/ \E p \in Procs, t \in Topics :
          Begun < MaxInvocations /\ BeginReview(p, t, WarmPassQuality)
    \/ \E p \in Procs : FinishReview(p, 0)

SpecRace == InitRace /\ [][NextRace]_vars

\* The scheduler on three topics, for the lists: one successful rating, so that a
\* first review is due again after a day and a second one after six.
QueueTopics == {"t1", "t2", "t3"}
MaxQueueReviews == 3
MaxQueueDays == 1
LimitInputs == {NoLimit, 0, 1, 2}

\* The reviews recorded in the schedule, over all its topics.
RECURSIVE ReviewsIn(_)
ReviewsIn(sched) ==
    IF DOMAIN sched = {} THEN 0
    ELSE LET t == CHOOSE x \in DOMAIN sched : TRUE
         IN sched[t].total_reviews + ReviewsIn(Del(sched, t))

InitQueue ==
    /\ InitMasteryStore
    /\ InitSchedulerStore
    /\ result = NoResult

NextQueue ==
    \/ \E t \in QueueTopics, u \in NoiseDraws :
          ReviewsIn(schedule) < MaxQueueReviews /\ Review(t, WarmPassQuality, u) /\ UNCHANGED aux
    \/ \E limit \in LimitInputs : GetDueTopics(limit) /\ UNCHANGED aux
    \/ now < StartTime + MaxQueueDays * Day /\ Tick(Day) /\ UNCHANGED aux

SpecQueue == InitQueue /\ [][NextQueue]_vars

\* The list queries of the scheduler and the status of the tracker, from the empty
\* stores on: reviews and resets of two topics, a day passing, and every query with and
\* without a limit, over a window of one day and of a week.
MaxListReviews == 3
MaxListDays == 1
DaysInputs == {1, QUEUE_DAYS}
QueueLimits == 0..2

InitLists ==
    /\ InitMasteryStore
    /\ InitSchedulerStore
    /\ result = NoResult

NextLists ==
    \/ \E t \in Topics, u \in NoiseDraws :
          ReviewsIn(schedule) < MaxListReviews /\ Review(t, WarmPassQuality, u) /\ UNCHANGED aux
    \/ \E limit \in LimitInputs : GetDueTopics(limit) /\ UNCHANGED aux
    \/ \E days \in DaysInputs, limit \in LimitInputs :
          GetUpcomingTopics(days, limit) /\ UNCHANGED aux
    \/ GetNextTopic /\ UNCHANGED aux
    \/ \E limit \in QueueLimits : GetReviewQueue(limit) /\ UNCHANGED aux
    \/ GetAllStatus /\ UNCHANGED aux
    \/ \E t \in Topics : ResetTopic(t) /\ UNCHANGED aux
    \/ now < StartTime + MaxListDays * Day /\ Tick(Day) /\ UNCHANGED aux

SpecLists == InitLists /\ [][NextLists]_vars

\* The command `upcoming` on a schedule of many topics: the first WarmTopics names
\* were each reviewed once, successfully, at the start; the last three names are
\* reviewed during the run.
WarmTopics == 9
MaxManyReviews == 3

RECURSIVE ReviewedOnce(_)
ReviewedOnce(n) ==
    IF n = 0 THEN EmptyMap
    ELSE Put(ReviewedOnce(n - 1), ManyTopics[n],
             ReviewRecord(DefaultTopicData(StartTime), WarmPassQuality, StartTime, 0))

LateTopics == {ManyTopics[i] : i \in (Len(ManyTopics) - 2)..Len(ManyTopics)}

InitMany ==
    /\ InitMasteryStore
    /\ result = NoResult
    /\ now = StartTime
    /\ schedule = ReviewedOnce(WarmTopics)
    /\ schedule_file = schedule

NextMany ==
    \/ \E t \in LateTopics, u \in NoiseDraws :
          /\ ReviewsIn(schedule) < WarmTopics + MaxManyReviews
          /\ Review(t, WarmPassQuality, u) /\ UNCHANGED aux
    \/ \E days \in DaysInputs : UpcomingCommand(days) /\ UNCHANGED aux
    \/ now < StartTime + MaxListDays * Day /\ Tick(Day) /\ UNCHANGED aux

SpecMany == InitMany /\ [][NextMany]_vars

\* Two runs of the scheduler side by side. Each operation is applied to both with
\* the same arguments and the same noise draw; the two clocks start apart and
\* advance independently.
MaxTwinReviews == 2
MaxTwinDays == 1
TwinStarts == {StartTime, StartTime + Day \div 2}

\* review(topic_id, quality) in the second run.
ReviewTwin(topic_id, quality, noise) ==
    twin' = IF ~QualityValid(quality) THEN twin
            ELSE LET got == get_topic_data(twin.schedule, topic_id, twin.now)
                 IN [twin EXCEPT !.schedule =
                        [got EXCEPT ![topic_id] = ReviewRecord(@, quality, twin.now, noise)]]

\* reset_topic(topic_id) in the second run.
ResetTwin(topic_id) ==
    twin' = IF topic_id \in DOMAIN twin.schedule
            THEN [twin EXCEPT !.schedule = Del(twin.schedule, topic_id)]
            ELSE twin

\* The clock of the second run advances.
TickTwin(d) ==
    /\ twin' = [twin EXCEPT !.now = @ + d]
    /\ UNCHANGED <<progress, um_call, schedule, schedule_file, now, result>>

InitTwin ==
    /\ progress = EmptyMap
    /\ um_call = NoCall
    /\ InitSchedulerStore
    /\ result = NoResult
    /\ procs = [p \in {} |-> 0]
    /\ locking = "none"
    /\ completed = [k \in {} |-> 0]
    /\ fault = [progress |-> "ok", schedule |-> "ok"]
    /\ twin \in [schedule : {EmptyMap}, now : TwinStarts]
    /\ streak = NoStreak

NextTwin ==
    \/ \E t \in Topics, q \in {WarmFailQuality, WarmPassQuality, 6}, u \in NoiseDraws :
          /\ ReviewsIn(schedule) < MaxTwinReviews
          /\ Review(t, q, u) /\ ReviewTwin(t, q, u)
          /\ UNCHANGED <<procs, locking, completed, fault, streak>>
    \/ \E t \in Topics :
          ResetTopic(t) /\ ResetTwin(t) /\ UNCHANGED <<procs, locking, completed, fault, streak>>
    \/ now < StartTime + MaxTwinDays * Day /\ Tick(Day) /\ UNCHANGED aux
    \/ /\ twin.now < StartTime + MaxTwinDays * Day
       /\ TickTwin(Day) /\ UNCHANGED <<procs, locking, completed, fault, streak>>

SpecTwin == InitTwin /\ [][NextTwin]_vars

\* Answers on one topic, with the length of its current run of correct answers
\* observed, while another topic is answered in between.
MaxStreakAttempts == 7
MaxSideAttempts == 1

StreakOf(t) == IF t \in DOMAIN streak THEN streak[t] ELSE 0

\* update_topic(topic, is_correct), observed.
UpdateObserved(topic, is_correct) ==
    /\ UpdateTopic(topic, is_correct)
    /\ streak' = Put(streak, topic, IF is_correct THEN StreakOf(topic) + 1 ELSE 0)
    /\ UNCHANGED <<procs, locking, completed, fault, twin>>

InitStreak ==
    /\ InitMasteryStore
    /\ InitSchedulerStore
    /\ result = NoResult

NextStreak ==
    \/ \E c \in BOOLEAN :
          AttemptsOf(DrillTopic) < MaxStreakAttempts /\ UpdateObserved(DrillTopic, c)
    \/ \E t \in Topics \ {DrillTopic}, c \in BOOLEAN :
          AttemptsOf(t) < MaxSideAttempts /\ UpdateObserved(t, c)
    \/ GetAllStatus /\ UNCHANGED aux

SpecStreak == InitStreak /\ [][NextStreak]_vars

\* The records of the schedule under every operation of the scheduler: accepted
\* and rejected reviews, resets and all the queries, on two topics, with the clock
\* read a moment before a day is over as well as at its end.
MaxRecordReviews == 2
MaxRecordDays == 1
RecordQualities == {WarmFailQuality, WarmPassQuality, 6}
ClockSteps == {Moment, Day - Moment, Day}
ClockReadings ==
    {r \in {StartTime + k * Day - e : k \in 0..MaxRecordDays, e \in {0, Moment}} :
        r >= StartTime}

InitRecords ==
    /\ InitMasteryStore
    /\ InitSchedulerStore
    /\ result = NoResult

NextRecords ==
    \/ \E t \in Topics, q \in RecordQualities, u \in {0 - NOISE_FACTOR, 0} :
          ReviewsIn(schedule) < MaxRecordReviews /\ Review(t, q, u) /\ UNCHANGED aux
    \/ \E t \in Topics : ResetTopic(t) /\ UNCHANGED aux
    \/ \E t \in Topics : GetStats(t) /\ UNCHANGED aux
    \/ GetDueTopics(NoLimit) /\ UNCHANGED aux
    \/ GetUpcomingTopics(QUEUE_DAYS, NoLimit) /\ UNCHANGED aux
    \/ GetNextTopic /\ UNCHANGED aux
    \/ \E d \in {0, Moment} :
          /\ now + d \in ClockReadings
          /\ GetReviewQueueTimed(DEFAULT_QUEUE_LIMIT, d) /\ UNCHANGED aux
    \/ \E d \in ClockSteps : now + d \in ClockReadings /\ Tick(d) /\ UNCHANGED aux

SpecRecords == InitRecords /\ [][NextRecords]_vars

\* Both stores under the three writing operations, on two topics: a few answers,
\* a few reviews (one failing and one successful quality), and resets.
MaxFrameUpdates == 2
MaxFrameReviews == 2

InitFrame ==
    /\ InitMasteryStore
    /\ InitSchedulerStore
    /\ result = NoResult

NextFrame ==
    \/ \E t \in Topics, c \in BOOLEAN :
          /\ AttemptsOf("t1") + AttemptsOf("t2") < MaxFrameUpdates
          /\ UpdateTopic(t, c) /\ UNCHANGED aux
    \/ \E t \in Topics, q \in {WarmFailQuality, WarmPassQuality} :
          ReviewsIn(schedule) < MaxFrameReviews /\ Review(t, q, 0) /\ UNCHANGED aux
    \/ \E t \in Topics : ResetTopic(t) /\ UNCHANGED aux

SpecFrame == InitFrame /\ [][NextFrame]_vars

\* Both stores, for the read operations: a few answers on two topics, and reviews
\* of one topic with one failing and one successful quality.
MaxQueryUpdates == 2
MaxQueryReviews == 2

InitQueries ==
    /\ InitMasteryStore
    /\ InitSchedulerStore
    /\ result = NoResult

NextQueries ==
    \/ \E t \in Topics, c \in BOOLEAN :
          AttemptsOf(t) < MaxQueryUpdates /\ UpdateTopic(t, c) /\ UNCHANGED aux
    \/ \E t \in Topics : GetTopicMastery(t) /\ UNCHANGED aux
    \/ GetAllStatus /\ UNCHANGED aux
    \/ \E q \in {WarmFailQuality, WarmPassQuality} :
          ReviewsOf(ChainTopic) < MaxQueryReviews /\ Review(ChainTopic, q, 0) /\ UNCHANGED aux
    \/ GetStats(ChainTopic) /\ UNCHANGED aux

SpecQueries == InitQueries /\ [][NextQueries]_vars

(***************************************************************************)
(* Properties                                                              *)
(***************************************************************************)

\* A step in which review() accepted a rating of ChainTopic: its result is new
\* (total_reviews grows, so no two accepted reviews report the same).
AcceptedReview ==
    /\ result'.op = "review"
    /\ result'.status = "ok"
    /\ result' # result

\* A step in which an operation of kind op returned.
Returned(op) == result'.op = op /\ result' # result

InOneDay(interval) == 950 <= interval /\ interval <= 1050
InSixDays(interval) == 5700 <= interval /\ interval <= 6300

\* Every quality of a history is a successful one.
AllPass(h) == \A i \in 1..Len(h) : h[i].quality >= 3

\* C1: every stored p_known lies in [0.01, 0.99] after any sequence of updates from
\* an empty store, and update_mastery returns a value in [0.01, 0.99] for every
\* p_known in [0,1] and both observations.
C1_PKnownInRange ==
    /\ \A t \in DOMAIN progress :
          PScale <= 100 * progress[t].p_known /\ 100 * progress[t].p_known <= 99 * PScale
    /\ um_call.st = "returned" =>
          PScale <= 100 * um_call.ret /\ 100 * um_call.ret <= 99 * PScale

\* An update left a topic at the upper clamp.
C1_Witness ==
    /\ result.op = "update"
    /\ progress[result.topic].p_known * 100 = 99 * PScale
    /\ result.change > 0

\* C2: every record's ease_factor is at least 1.3, in the schedule and in its file.
C2_EaseFloor ==
    /\ \A t \in DOMAIN schedule : schedule[t].ease_factor >= 130
    /\ \A t \in DOMAIN schedule_file : schedule_file[t].ease_factor >= 130

\* A failed review of a topic whose ease factor was already at the floor.
C2_Witness ==
    /\ ChainTopic \in DOMAIN schedule
    /\ result.op = "review" /\ result.status = "ok" /\ result.quality < 3
    /\ schedule[ChainTopic].total_reviews > WarmReviews
    /\ schedule[ChainTopic].ease_factor = 130

\* C3: a review with a quality outside 0..5 raises the validation error and leaves
\* the schedule and its file as they were (no record created, none changed).
C3_InvalidQualityRejected ==
    [][(result'.op = "review" /\ ~(0 <= result'.quality /\ result'.quality <= 5))
          => /\ result'.status = "ValueError"
             /\ schedule' = schedule
             /\ schedule_file' = schedule_file]_vars

\* A rating below 0 was rejected for a topic with no record, and none was created.
C3_Witness ==
    /\ result.op = "review" /\ result.status = "ValueError" /\ result.quality < 0
    /\ ChainTopic \notin DOMAIN schedule
    /\ ChainTopic \notin DOMAIN schedule_file

\* C4: from no record, the 1st successful review gives repetitions 1 and an interval
\* in [0.95, 1.05] days, the 2nd repetitions 2 and an interval in [5.7, 6.3] days, the
\* 3rd repetitions 3 and an interval within 5% of (the interval the 2nd stored times
\* the ease factor the 3rd stored), to the resolution of the grid (two thousandths
\* of a day, for the two roundings).
C4_FirstThreeSuccesses ==
    [][(AcceptedReview /\ result'.quality >= 3) =>
          LET new == schedule'[ChainTopic]
          IN /\ ChainTopic \notin DOMAIN schedule =>
                    new.repetitions = 1 /\ InOneDay(new.interval)
             /\ (/\ ChainTopic \in DOMAIN schedule
                 /\ schedule[ChainTopic].total_reviews = 1
                 /\ AllPass(schedule[ChainTopic].quality_history)) =>
                    new.repetitions = 2 /\ InSixDays(new.interval)
             /\ (/\ ChainTopic \in DOMAIN schedule
                 /\ schedule[ChainTopic].total_reviews = 2
                 /\ AllPass(schedule[ChainTopic].quality_history)) =>
                    /\ new.repetitions = 3
                    /\ 100 * 100 * new.interval
                          <= 105 * schedule[ChainTopic].interval * new.ease_factor
                    /\ 100 * 100 * (new.interval + 2)
                          >= 95 * schedule[ChainTopic].interval * new.ease_factor]_vars

\* Three successful reviews of a topic that had no record.
C4_Witness ==
    /\ ChainTopic \in DOMAIN schedule
    /\ schedule[ChainTopic].total_reviews = 3
    /\ AllPass(schedule[ChainTopic].quality_history)
    /\ schedule[ChainTopic].repetitions = 3
    /\ schedule[ChainTopic].interval > 6300

\* C5: an accepted review with quality < 3 leaves repetitions 0 and an interval in
\* [0.95, 1.05] days, with next_review = the time of the review + that interval.
C5_FailureResets ==
    [][(AcceptedReview /\ result'.quality < 3) =>
          LET new == schedule'[ChainTopic]
          IN /\ new.repetitions = 0
             /\ InOneDay(new.interval)
             /\ new.last_review = now
             /\ new.next_review = now + new.interval]_vars

\* A failed review of a topic that had two successful reviews just before it.
C5_Witness ==
    /\ ChainTopic \in DOMAIN schedule
    /\ LET h == schedule[ChainTopic].quality_history
       IN /\ Len(h) >= 3
          /\ h[Len(h)].quality < 3
          /\ \A i \in (Len(h) - 2)..(Len(h) - 1) : h[i].quality >= 3
    /\ schedule[ChainTopic].repetitions = 0

\* C6: the first successful review after a failed one gives repetitions 1 and an
\* interval in [0.95, 1.05] days, and the successful review after that repetitions 2
\* and an interval in [5.7, 6.3] days, whatever the topic held before the failure.
C6_FailureIsFreshStart ==
    \A t \in DOMAIN schedule :
        LET h == schedule[t].quality_history
            n == Len(h)
        IN /\ (n >= 2 /\ h[n].quality >= 3 /\ h[n - 1].quality < 3) =>
                  schedule[t].repetitions = 1 /\ InOneDay(schedule[t].interval)
           /\ (n >= 3 /\ h[n].quality >= 3 /\ h[n - 1].quality >= 3 /\ h[n - 2].quality < 3) =>
                  schedule[t].repetitions = 2 /\ InSixDays(schedule[t].interval)

\* Two successes after a failure that followed two successes.
C6_Witness ==
    /\ ChainTopic \in DOMAIN schedule
    /\ LET h == schedule[ChainTopic].quality_history
           n == Len(h)
       IN /\ n >= 5
          /\ h[n].quality >= 3 /\ h[n - 1].quality >= 3 /\ h[n - 2].quality < 3
          /\ h[n - 3].quality >= 3 /\ h[n - 4].quality >= 3
    /\ schedule[ChainTopic].repetitions = 2

\* C7: a quality_history holds at most 20 entries, oldest first; a review of a topic
\* that holds 20 removes the first entry, keeps the other 19 in order and puts the
\* new entry last.
C7_HistoryOrdered ==
    \A t \in DOMAIN schedule :
        LET h == schedule[t].quality_history
        IN /\ Len(h) <= 20
           /\ \A i \in 1..Len(h), j \in 1..Len(h) :
                 i < j => h[i].timestamp <= h[j].timestamp

\* The history a review leaves: the old one without its first entry when it held 20,
\* then the new entry.
C7_HistoryEviction ==
    (AcceptedReview /\ ChainTopic \in DOMAIN schedule) =>
        LET h == schedule[ChainTopic].quality_history
            entry == [quality |-> result'.quality, timestamp |-> now]
        IN schedule'[ChainTopic].quality_history =
              IF Len(h) = 20 THEN Append(Tail(h), entry) ELSE Append(h, entry)

\* C7: in every state a history holds at most 20 entries in chronological order, and
\* every review of a topic holding 20 evicts exactly the oldest.
C7_HistoryCapped == []C7_HistoryOrdered /\ [][C7_HistoryEviction]_vars

\* The 21st and the 22nd review of a topic, a day apart: 20 entries, the first two gone.
C7_Witness ==
    /\ ChainTopic \in DOMAIN schedule
    /\ schedule[ChainTopic].total_reviews = 22
    /\ Len(schedule[ChainTopic].quality_history) = 20
    /\ schedule[ChainTopic].quality_history[1].timestamp = 3 * Day
    /\ schedule[ChainTopic].quality_history[20].timestamp >
          schedule[ChainTopic].quality_history[19].timestamp

\* total_reviews of topic t after the step (0 without a record).
ReviewsAfter(t) == IF t \in DOMAIN schedule' THEN schedule'[t].total_reviews ELSE 0

\* C8 as stated: a topic's total_reviews (0 while it has no record) never decreases.
C8_NeverDecreases ==
    [][\A t \in Topics : ReviewsAfter(t) >= ReviewsOf(t)]_vars

\* C8, amended: total_reviews grows by exactly 1 on every accepted review and changes
\* in no other step while the record exists; only Reset removes a record, and it
\* removes the count with it.
C8_CountsAcceptedReviews ==
    [][/\ AcceptedReview => ReviewsAfter(result'.topic_id) = ReviewsOf(result'.topic_id) + 1
       /\ \A t \in Topics :
             /\ (t \in DOMAIN schedule' /\ ~(AcceptedReview /\ result'.topic_id = t)) =>
                    t \in DOMAIN schedule /\ ReviewsAfter(t) = ReviewsOf(t)
             /\ (t \in DOMAIN schedule /\ t \notin DOMAIN schedule') =>
                    Returned("reset") /\ result'.topic_id = t]_vars

\* The first review after the reset of a topic with a long history: its count is 1.
C8_Witness ==
    /\ result.op = "review" /\ result.status = "ok"
    /\ ChainTopic \in DOMAIN schedule
    /\ schedule[ChainTopic].total_reviews = 1

\* C9 as stated: after Reset the store holds no record of the topic, and both Review
\* and GetStats of a topic without a record work on a record with the defaults.
C9_AccessRecreatesDefaults ==
    [][/\ Returned("reset") => result'.topic_id \notin DOMAIN schedule'
       /\ (Returned("stats") /\ result'.topic_id \notin DOMAIN schedule) =>
             /\ result'.found
             /\ result'.ease_factor = 250
             /\ result'.interval = 0
             /\ result'.repetitions = 0
             /\ result'.total_reviews = 0]_vars

\* The ease factor a first review of quality q leaves: 2.5 + the change for q.
FirstEase(q) == IF q = 5 THEN 260 ELSE IF q = 4 THEN 250 ELSE IF q = 3 THEN 236 ELSE 230

\* C9, amended: after Reset the schedule and its file hold no record of the topic; a
\* Review of a topic without a record works on the defaults (ease factor 2.5,
\* repetitions 0, total_reviews 0, empty history); GetStats of such a topic returns
\* None and creates no record.
C9_ResetThenAccess ==
    [][/\ Returned("reset") =>
             /\ result'.topic_id \notin DOMAIN schedule'
             /\ result'.topic_id \notin DOMAIN schedule_file'
       /\ (AcceptedReview /\ result'.topic_id \notin DOMAIN schedule) =>
             LET new == schedule'[result'.topic_id]
             IN /\ new.ease_factor = FirstEase(result'.quality)
                /\ new.repetitions = (IF result'.quality >= 3 THEN 1 ELSE 0)
                /\ InOneDay(new.interval)
                /\ new.total_reviews = 1
                /\ new.last_review = now
                /\ new.quality_history =
                      <<[quality |-> result'.quality, timestamp |-> now]>>
       /\ (Returned("stats") /\ result'.topic_id \notin DOMAIN schedule) =>
             /\ ~result'.found
             /\ schedule' = schedule
             /\ schedule_file' = schedule_file]_vars

\* GetStats found nothing after the record of the topic was reset, and created none.
C9_Witness ==
    /\ result.op = "stats" /\ ~result.found
    /\ ChainTopic \notin DOMAIN schedule
    /\ schedule_file = EmptyMap

\* C10 as stated: Get, GetStats and Status leave both stores as they were, for a
\* topic with or without a record.
C10_ReadsChangeNothing ==
    [][(result'.op \in {"get", "stats", "status"} /\ result' # result) =>
          UNCHANGED <<progress, schedule, schedule_file>>]_vars

\* C10, amended: GetStats and Status leave both stores as they were; Get leaves the
\* schedule as it was and the mastery store too when the topic has a record, and
\* otherwise adds the default record of the topic and nothing else, so that a
\* second Get changes nothing.
C10_ReadsOnlyInitialize ==
    [][/\ (Returned("stats") \/ Returned("status")) =>
             UNCHANGED <<progress, schedule, schedule_file>>
       /\ Returned("get") =>
             /\ UNCHANGED <<schedule, schedule_file>>
             /\ result'.topic \in DOMAIN progress => progress' = progress
             /\ result'.topic \notin DOMAIN progress =>
                   progress' = Put(progress, result'.topic,
                                   [p_known |-> 3000, attempts |-> 0, correct |-> 0,
                                    difficulty |-> 1])]_vars

\* Get returned a topic that has answers recorded, with a schedule in place.
C10_Witness ==
    /\ result.op = "get"
    /\ result.attempts = 2
    /\ progress[result.topic].attempts = 2
    /\ ChainTopic \in DOMAIN schedule

\* The counters and the difficulty of a topic before it has a record.
CorrectOf(t) == IF t \in DOMAIN progress THEN progress[t].correct ELSE 0
DifficultyOf(t) == IF t \in DOMAIN progress THEN progress[t].difficulty ELSE 1

\* C17: every record has 0 <= correct <= attempts and 1 <= difficulty <= 5, and each
\* Update raises attempts by exactly 1 and correct by 1 exactly when the answer was correct.
C17_CountersAndDifficulty ==
    /\ [](\A t \in DOMAIN progress :
            /\ 0 <= progress[t].correct
            /\ progress[t].correct <= progress[t].attempts
            /\ 1 <= progress[t].difficulty
            /\ progress[t].difficulty <= 5)
    /\ [][Returned("update") =>
            LET t == result'.topic
            IN /\ progress'[t].attempts = AttemptsOf(t) + 1
               /\ progress'[t].correct = CorrectOf(t) + (IF result'.is_correct THEN 1 ELSE 0)]_vars

\* Seven correct answers in a row: the difficulty has reached its cap and stayed there.
C17_Witness ==
    /\ result.op = "update"
    /\ DrillTopic \in DOMAIN progress
    /\ progress[DrillTopic].attempts = 7
    /\ progress[DrillTopic].correct = 7
    /\ progress[DrillTopic].difficulty = 5

\* C18: the difficulty changes only in an Update, by the rule on the incremented
\* counters: up by 1 if attempts >= 3, rate > 0.8 and difficulty < 5; down by 1 if
\* attempts >= 3, rate < 0.5 and difficulty > 1; unchanged otherwise.
C18_DifficultyStep ==
    [][\A t \in DOMAIN progress' :
          LET d == DifficultyOf(t)
              a == progress'[t].attempts
              c == progress'[t].correct
          IN IF Returned("update") /\ result'.topic = t
             THEN progress'[t].difficulty =
                     (IF a >= 3 /\ 10 * c > 8 * a /\ d < 5 THEN d + 1
                      ELSE IF a >= 3 /\ 2 * c < a /\ d > 1 THEN d - 1
                      ELSE d)
             ELSE progress'[t].difficulty = d]_vars

\* Four correct answers then a wrong one: the rate is exactly 0.8 and the difficulty
\* stays at the 3 it had reached.
C18_Witness ==
    /\ result.op = "update"
    /\ result.attempts = 5
    /\ result.difficulty = 3
    /\ ~result.is_correct
    /\ progress[result.topic].correct = 4

\* The topics of the store that are not mastered.
Unmastered == {t \in DOMAIN progress : progress[t].p_known < MASTERY_THRESHOLD}

\* C16: Suggest returns an unmastered topic whose (p_known, attempts) is lexicographically
\* smallest among the unmastered topics, and reports no suggestion exactly when no
\* topic is unmastered.
C16_SuggestLowest ==
    result.op = "suggest" =>
        /\ result.found <=> Unmastered # {}
        /\ result.found =>
              /\ result.suggestion \in Unmastered
              /\ \A t \in Unmastered :
                    LET s == progress[result.suggestion]
                    IN \/ s.p_known < progress[t].p_known
                       \/ /\ s.p_known = progress[t].p_known
                          /\ s.attempts <= progress[t].attempts

\* The suggested topic has the lower mastery although the other was tried less often.
C16_Witness ==
    /\ result.op = "suggest"
    /\ result.found
    /\ \E t \in Unmastered :
          /\ progress[t].p_known > progress[result.suggestion].p_known
          /\ progress[t].attempts < progress[result.suggestion].attempts

\* C19: a record appears only in a Get or an Update naming its topic, with the
\* defaults (0.3, 0, 0, 1) -- in an Update, with the defaults updated once; a record
\* that exists is changed only by an Update naming its topic; no topic disappears.
C19_CreatedOnceChangedByUpdate ==
    [][/\ DOMAIN progress \subseteq DOMAIN progress'
       /\ \A t \in DOMAIN progress' :
             IF t \notin DOMAIN progress
             THEN /\ result'.op \in {"get", "update"}
                  /\ result'.topic = t
                  /\ result'.op = "get" =>
                        progress'[t] = [p_known |-> (P_INIT * PScale) \div ParamScale,
                                        attempts |-> 0, correct |-> 0, difficulty |-> 1]
                  /\ result'.op = "update" =>
                        /\ result'.old_mastery = (P_INIT * PScale) \div ParamScale
                        /\ progress'[t].attempts = 1
                        /\ progress'[t].correct = (IF result'.is_correct THEN 1 ELSE 0)
                        /\ progress'[t].difficulty = 1
             ELSE progress'[t] # progress[t] => Returned("update") /\ result'.topic = t]_vars

\* A Get has just created a record with the defaults next to a topic already answered.
C19_Witness ==
    /\ result.op = "get"
    /\ progress[result.topic].attempts = 0
    /\ \E t \in DOMAIN progress : progress[t].attempts > 1

\* C20: the three counts of Status are the numbers of topics with p_known >= 0.95,
\* of topics tried and not mastered, and of topics never tried; they add up to the
\* number of known topics.
C20_StatusPartition ==
    result.op = "status" =>
        LET n(S) == Cardinality(S)
            known == DOMAIN progress
        IN /\ result.total_topics = n(known)
           /\ result.mastered = n({t \in known : progress[t].p_known >= MASTERY_THRESHOLD})
           /\ result.in_progress = n({t \in known : /\ progress[t].attempts > 0
                                                     /\ progress[t].p_known < MASTERY_THRESHOLD})
           /\ result.not_started = n({t \in known : progress[t].attempts = 0})
           /\ result.mastered + result.in_progress + result.not_started = result.total_topics

\* One topic mastered and the other tried but not mastered.
C20_Witness ==
    /\ result.op = "status"
    /\ result.mastered = 1
    /\ result.in_progress = 1

\* C15: GetDueTopics() returns exactly the topics with next_review <= now, each once
\* and with its date, in non-decreasing order of next_review; from an empty schedule it
\* returns the empty sequence.
C15_DueExactAndSorted ==
    [][Returned("due") /\ result'.limit = NoLimit =>
          LET due == result'.due
          IN /\ {due[i][1] : i \in DOMAIN due} =
                   {t \in DOMAIN schedule' : schedule'[t].next_review <= now'}
             /\ \A i, j \in DOMAIN due : due[i][1] = due[j][1] => i = j
             /\ \A i \in DOMAIN due : due[i][2] = schedule'[due[i][1]].next_review
             /\ \A i, j \in DOMAIN due : i < j => due[i][2] <= due[j][2]
             /\ schedule' = EmptyMap => due = <<>>]_vars

\* Two topics are due at different times, one of them exactly now, and a third is not
\* due yet.
C15_Witness ==
    /\ result.op = "due"
    /\ result.limit = NoLimit
    /\ Len(result.due) = 2
    /\ result.due[1][2] < result.due[2][2]
    /\ result.due[2][2] = now
    /\ \E t \in DOMAIN schedule : schedule[t].next_review > now

\* Correctness arguments that are not a definite true or false.
MalformedInputs == {"maybe", ""}

\* An operation that ended in an error instead of a result.
Rejected(r) == "status" \in DOMAIN r /\ r.status # "ok"

\* C13: an update whose correctness argument is malformed is rejected with an error
\* and changes no record of the store.
C13_MalformedRejected ==
    [][\A t \in Topics, word \in MalformedInputs :
          UpdateCommand(t, word) => Rejected(result') /\ progress' = progress]_vars

\* The operations that load progress.json, and those that load schedule.json.
MasteryOps == {"update", "get", "status", "suggest"}
ScheduleOps == {"review", "stats", "due", "reset"}

\* progress.json is JSON with its topics mapping but a record lacks a required field.
RecordDamaged == \E t \in DOMAIN progress : LacksField(progress, t)

\* An operation failed and the files are as they were.
FailedCleanly ==
    /\ Rejected(result')
    /\ UNCHANGED <<progress, schedule_file, fault>>

Quiescent == \A p \in Procs : procs[p].pc # "loaded"

\* What the files hold for a topic.
SavedAttempts(t) == IF t \in DOMAIN progress THEN progress[t].attempts ELSE 0
SavedReviews(t) == IF t \in DOMAIN schedule_file THEN schedule_file[t].total_reviews ELSE 0

\* What an invocation loaded for its topic.
LoadedAttempts(p) ==
    IF procs[p].topic \in DOMAIN procs[p].local
    THEN procs[p].local[procs[p].topic].attempts ELSE 0
LoadedReviews(p) ==
    IF procs[p].topic \in DOMAIN procs[p].local
    THEN procs[p].local[procs[p].topic].total_reviews ELSE 0

\* p completes its invocation in this step.
Finishes(p, kind) ==
    procs[p].pc = "loaded" /\ procs[p].kind = kind /\ procs'[p].pc = "done"

\* C11: without locking the last writer wins. An invocation that completes persists
\* the store it loaded with its own topic counted once more, whatever was saved in
\* between; so the persisted count of a topic never exceeds the invocations completed
\* on it and can fall short of them (the witness: two completed, one counted).
C11_LastWriterWins ==
    /\ [](\A t \in Topics :
            /\ SavedAttempts(t) <= completed[<<"update", t>>]
            /\ SavedReviews(t) <= completed[<<"review", t>>])
    /\ [][\A p \in Procs :
            /\ Finishes(p, "update") =>
                  /\ progress'[procs[p].topic].attempts = LoadedAttempts(p) + 1
                  /\ \A u \in DOMAIN progress' \ {procs[p].topic} :
                        u \in DOMAIN procs[p].local /\ progress'[u] = procs[p].local[u]
            /\ Finishes(p, "review") =>
                  /\ schedule_file'[procs[p].topic].total_reviews = LoadedReviews(p) + 1
                  /\ \A u \in DOMAIN schedule_file' \ {procs[p].topic} :
                        u \in DOMAIN procs[p].local /\ schedule_file'[u] = procs[p].local[u]]_vars

\* Without locking, two Updates and two Reviews of t1 have completed, and the files
\* count one of each.
C11_Witness ==
    /\ locking = "none"
    /\ Quiescent
    /\ completed[<<"update", "t1">>] = 2
    /\ SavedAttempts("t1") = 1
    /\ completed[<<"review", "t1">>] = 2
    /\ SavedReviews("t1") = 1

\* Every completed invocation is counted in the files.
NothingLost ==
    \A t \in Topics :
        /\ SavedAttempts(t) = completed[<<"update", t>>]
        /\ SavedReviews(t) = completed[<<"review", t>>]

\* C12: if invocations naming the same topic never overlap, then once all have
\* completed every topic's persisted attempts and total_reviews equal the numbers of
\* Updates and Reviews completed on it.
C12_TopicLockSuffices == locking = "topic" /\ Quiescent => NothingLost

\* C12 with the exclusion per store: if invocations on the same store never overlap,
\* every completed invocation is counted.
C12_StoreLockSuffices == locking = "store" /\ Quiescent => NothingLost

\* Under the per-store exclusion both topics were updated and reviewed, and t1 was
\* updated twice.
C12_Witness ==
    /\ locking = "store"
    /\ Quiescent
    /\ completed[<<"update", "t1">>] = 2
    /\ completed[<<"update", "t2">>] = 1
    /\ completed[<<"review", "t2">>] = 1
    /\ NothingLost

\* The ease factor a review of t starts from.
EaseOf(t) == IF t \in DOMAIN schedule THEN schedule[t].ease_factor ELSE DEFAULT_EASE_FACTOR

\* An accepted review of quality q stored the ease factor changed by delta
\* (hundredths), floored at 1.3.
EaseStep(q, delta) ==
    AcceptedReview /\ result'.quality = q =>
        schedule'[result'.topic_id].ease_factor = Max(130, EaseOf(result'.topic_id) + delta)

Near(a, b) == 1000 * (a - b) <= PScale /\ 1000 * (b - a) <= PScale

\* C27: the first Update of a fresh topic (p_known = 0.3) stores 0.6927 after a
\* correct answer and 0.1457 after a wrong one, to within 0.001; the posteriors on
\* the way are 0.6585 and 0.0508.
C27_FirstUpdate ==
    /\ Near(Posterior(3000, TRUE), 6585)
    /\ Near(Posterior(3000, FALSE), 508)
    /\ result.op = "update" /\ result.attempts = 1 =>
          /\ result.old_mastery = 3000
          /\ progress[result.topic].p_known = result.new_mastery
          /\ Near(result.new_mastery, IF result.is_correct THEN 6927 ELSE 1457)

\* Both first answers have been given: one topic correctly, the other wrongly.
C27_Witness ==
    /\ result.op = "update" /\ result.attempts = 1 /\ result.is_correct
    /\ \E t \in DOMAIN progress :
          progress[t].attempts = 1 /\ progress[t].correct = 0 /\ Near(progress[t].p_known, 1457)

\* The sum of the qualities of history h.
QualitySum(h) ==
    LET sum[i \in 0..Len(h)] == IF i = 0 THEN 0 ELSE sum[i - 1] + h[i].quality
    IN sum[Len(h)]

\* avg (hundredths) is the mean of the qualities of h rounded to two places; 0 for
\* an empty history.
MeanOf(h, avg) ==
    IF Len(h) = 0 THEN avg = 0
    ELSE /\ 2 * (100 * QualitySum(h) - avg * Len(h)) <= Len(h)
         /\ 2 * (avg * Len(h) - 100 * QualitySum(h)) <= Len(h)

\* C29: GetStats of a scheduled topic reports the mean of the retained history (at
\* most 20 entries; 0 when empty), the last min(5, length) qualities in order, and
\* 'overdue' exactly when next_review - now is negative, 'upcoming' otherwise.
C29_StatsView ==
    [][Returned("stats") /\ result'.found =>
          LET topic == schedule[result'.topic_id]
              h == topic.quality_history
              k == Min(5, Len(h))
          IN /\ Len(h) <= HISTORY_LIMIT
             /\ MeanOf(h, result'.average_quality)
             /\ AverageQuality(<<>>) = 0
             /\ Len(result'.recent_quality) = k
             /\ \A i \in 1..k : result'.recent_quality[i] = h[Len(h) - k + i].quality
             /\ result'.status = IF topic.next_review - now < 0 THEN "overdue" ELSE "upcoming"
             /\ result'.status = "upcoming" <=> topic.next_review >= now]_vars

\* Stats of an overdue topic whose history has been trimmed, the recent qualities
\* differing from the older ones.
C29_Witness ==
    /\ result.op = "stats" /\ result.found /\ result.status = "overdue"
    /\ result.total_reviews > HISTORY_LIMIT
    /\ Len(result.recent_quality) = 5
    /\ 5 * result.average_quality # 100 * (result.recent_quality[1] + result.recent_quality[2]
          + result.recent_quality[3] + result.recent_quality[4] + result.recent_quality[5])

\* Stats of a topic that falls due at this very instant: it is 'upcoming'.
C29_WitnessDueNow ==
    /\ result.op = "stats" /\ result.found /\ result.status = "upcoming"
    /\ result.topic_id \in DOMAIN schedule
    /\ schedule[result.topic_id].next_review = now

\* Store m holds for every topic other than t what it held before the step.
OthersKept(m, t) ==
    \A x \in (DOMAIN m \cup DOMAIN m') \ {t} :
        x \in DOMAIN m /\ x \in DOMAIN m' /\ m'[x] = m[x]

\* C30: Update(t), Review(t) and Reset(t) change only the record of t: every other
\* topic's record in both stores is the same before and after, the other store is
\* untouched, and Reset of a topic without a record changes nothing at all.
C30_OnlyTheTopicChanges ==
    [][/\ Returned("update") =>
            /\ OthersKept(progress, result'.topic)
            /\ UNCHANGED <<schedule, schedule_file>>
       /\ Returned("review") =>
            /\ OthersKept(schedule, result'.topic_id)
            /\ OthersKept(schedule_file, result'.topic_id)
            /\ UNCHANGED progress
       /\ Returned("reset") =>
            /\ OthersKept(schedule, result'.topic_id)
            /\ OthersKept(schedule_file, result'.topic_id)
            /\ UNCHANGED progress
            /\ result'.topic_id \notin DOMAIN schedule =>
                  UNCHANGED <<progress, schedule, schedule_file>>]_vars

\* One topic has been reset while the other keeps its record in the schedule, and
\* both have answers in the mastery store.
C30_Witness ==
    /\ result.op = "reset" /\ result.deleted
    /\ DOMAIN schedule = Topics \ {result.topic_id}
    /\ DOMAIN schedule_file = DOMAIN schedule
    /\ DOMAIN progress = Topics

\* The topics due now, and those falling due within the next `days` days.
DueSet == {t \in DOMAIN schedule : schedule[t].next_review <= now}
WindowSet(days) ==
    {t \in DOMAIN schedule :
        now < schedule[t].next_review /\ schedule[t].next_review <= now + days * Day}

\* The topic ids of a list of (topic_id, next_review) pairs.
TopicsOf(entries) == [i \in DOMAIN entries |-> entries[i][1]]

\* The first k elements of a sequence (all of it when it is shorter).
FirstK(seq, k) == SubSeq(seq, 1, Min(k, Len(seq)))

\* C21: on an empty store Status returns all counts zero, GetDueTopics and
\* GetUpcomingTopics return empty sequences, GetNextTopic returns none and
\* GetReviewQueue an empty queue; none of them fails or changes the store.
C21_EmptyStoreQueries ==
    [][/\ DOMAIN progress = {} /\ Returned("status") =>
            /\ result' = [op |-> "status", total_topics |-> 0, mastered |-> 0,
                          in_progress |-> 0, not_started |-> 0]
            /\ UNCHANGED <<progress, schedule, schedule_file>>
       /\ DOMAIN schedule = {} /\ DOMAIN schedule_file = {} =>
            /\ Returned("due") => result'.due = <<>>
            /\ Returned("upcoming") => result'.upcoming = <<>>
            /\ Returned("next") => result' = [op |-> "next", found |-> FALSE]
            /\ Returned("queue") => result'.queue = <<>>
            /\ result'.op \in {"due", "upcoming", "next", "queue"} =>
                  ~Rejected(result') /\ UNCHANGED <<progress, schedule, schedule_file>>]_vars

\* The review queue has been asked for, with room for entries, on a schedule that
\* was emptied by resets.
C21_Witness ==
    /\ result.op = "queue" /\ result.limit > 0 /\ result.queue = <<>>
    /\ DOMAIN schedule = {} /\ DOMAIN schedule_file = {} /\ DOMAIN progress = {}
    /\ now > StartTime

\* C22: GetReviewQueue(limit) returns at most limit entries: the due list tagged
\* 'overdue', in due-list order, followed by GetUpcomingTopics(7, limit - number of
\* due) tagged 'upcoming', cut to limit; every 'overdue' entry precedes every
\* 'upcoming' one.
C22_QueueShape ==
    [][Returned("queue") =>
          LET q == result'.queue
              limit == result'.limit
              nd == Min(limit, Cardinality(DueSet))
          IN /\ Len(q) <= limit
             /\ Len(q) = Min(limit, Cardinality(DueSet) + Cardinality(WindowSet(QUEUE_DAYS)))
             /\ \A i \in DOMAIN q :
                   /\ q[i].priority = IF i <= nd THEN "overdue" ELSE "upcoming"
                   /\ q[i].topic_id \in IF i <= nd THEN DueSet ELSE WindowSet(QUEUE_DAYS)
                   /\ q[i].next_review = schedule[q[i].topic_id].next_review
             /\ \A i, j \in DOMAIN q :
                   /\ i < j /\ q[i].priority = q[j].priority => q[i].next_review <= q[j].next_review
                   /\ i < j => q[i].topic_id # q[j].topic_id
                   /\ i < j => ~(q[i].priority = "upcoming" /\ q[j].priority = "overdue")
             /\ \E order \in Orders(DOMAIN schedule) :
                   LET due == CapTo(SortByDate(DueEntries(order, schedule, now)), NoLimit)
                       upcoming == UpcomingList(order, schedule, now, QUEUE_DAYS,
                                                limit - Len(due))
                   IN [i \in DOMAIN q |-> q[i].topic_id]
                        = FirstK(TopicsOf(due) \o TopicsOf(upcoming), limit)]_vars

\* A queue of two: a topic that is due, then one that falls due within the week,
\* with a limit that leaves room for exactly these.
C22_Witness ==
    /\ result.op = "queue" /\ result.limit = 2 /\ Len(result.queue) = 2
    /\ result.queue[1].priority = "overdue"
    /\ result.queue[2].priority = "upcoming"
    /\ result.queue[1].topic_id \in DueSet
    /\ result.queue[2].topic_id \in WindowSet(QUEUE_DAYS)

\* C24: with a limit k >= 0, GetDueTopics(k) and GetUpcomingTopics(days, k) return
\* at most k entries: the first k of the corresponding full sorted list.
C24_LimitCaps ==
    [][/\ Returned("due") /\ result'.limit >= 0 =>
            /\ Len(result'.due) <= result'.limit
            /\ \E order \in Orders(DOMAIN schedule) :
                  result'.due = FirstK(SortByDate(DueEntries(order, schedule, now)),
                                       result'.limit)
       /\ Returned("upcoming") /\ result'.limit >= 0 =>
            /\ Len(result'.upcoming) <= result'.limit
            /\ \E order \in Orders(DOMAIN schedule) :
                  result'.upcoming =
                      FirstK(SortByDate(UpcomingEntries(order, schedule, now, result'.days)),
                             result'.limit)]_vars

\* C25: GetNextTopic() returns the first element of GetDueTopics(), a due topic with
\* the least next_review, when some topic is due, and none exactly when no topic has
\* next_review <= now.
C25_NextIsHeadOfDue ==
    [][Returned("next") =>
          /\ ~Rejected(result')
          /\ result'.found <=> DueSet # {}
          /\ result'.found =>
                /\ result'.topic_id \in DueSet
                /\ \A t \in DueSet :
                      schedule[result'.topic_id].next_review <= schedule[t].next_review
                /\ \E order \in Orders(DOMAIN schedule) :
                      result'.topic_id
                          = CapTo(SortByDate(DueEntries(order, schedule, now)), NoLimit)[1][1]
          /\ UNCHANGED <<schedule, schedule_file>>]_vars

\* Two topics are due, one longer than the other, and the longer overdue one was
\* returned.
C25_Witness ==
    /\ result.op = "next" /\ result.found
    /\ Cardinality(DueSet) = 2
    /\ \E t \in DueSet : schedule[result.topic_id].next_review < schedule[t].next_review

\* The list `up` of (topic_id, next_review) pairs holds distinct topics of the set
\* `within` with their dates, in non-decreasing order of date.
SortedFrom(up, within) ==
    /\ \A i \in DOMAIN up :
          up[i][1] \in within /\ up[i][2] = schedule[up[i][1]].next_review
    /\ \A i, j \in DOMAIN up : i < j => up[i][1] # up[j][1] /\ up[i][2] <= up[j][2]

\* C23: GetUpcomingTopics(days) without an explicit limit returns exactly the topics
\* with next_review in (now, now+days], in non-decreasing order of next_review;
\* next_review = now is excluded and next_review = now+days is included.
C23_UpcomingIsWindow ==
    [][Returned("upcoming") /\ result'.limit = DEFAULT_UPCOMING_LIMIT =>
          /\ SortedFrom(result'.upcoming, WindowSet(result'.days))
          /\ {result'.upcoming[i][1] : i \in DOMAIN result'.upcoming}
                = WindowSet(result'.days)]_vars

\* C23 with the default limit of 10: the ten soonest topics of the window, all of
\* them when the window holds at most ten.
C23_UpcomingIsWindowUpToTen ==
    [][Returned("upcoming") /\ result'.limit = DEFAULT_UPCOMING_LIMIT =>
          LET up == result'.upcoming
              window == WindowSet(result'.days)
              listed == {up[i][1] : i \in DOMAIN up}
          IN /\ SortedFrom(up, window)
             /\ Len(up) = Min(10, Cardinality(window))
             /\ \A t \in window \ listed, i \in DOMAIN up :
                   up[i][2] <= schedule[t].next_review]_vars

\* Eleven topics fall due within the next day, one of them exactly a day from now,
\* and ten were listed.
C23_Witness ==
    /\ result.op = "upcoming" /\ result.days = 1
    /\ Cardinality(WindowSet(1)) = 11
    /\ Len(result.upcoming) = 10
    /\ \E i \in DOMAIN result.upcoming : result.upcoming[i][2] = now + Day

\* What a record says apart from its dates: ease factor, interval, repetitions,
\* number of reviews and the recorded qualities.
Undated(r) ==
    [ease_factor |-> r.ease_factor, interval |-> r.interval,
     repetitions |-> r.repetitions, total_reviews |-> r.total_reviews,
     qualities |-> [i \in DOMAIN r.quality_history |-> r.quality_history[i].quality]]

\* C28: two runs given the same Review and Reset operations with the same noise
\* draws hold, for every topic, the same ease_factor, interval, repetitions,
\* total_reviews and recorded qualities, whatever their wall-clock times.
C28_SameButForDates ==
    /\ DOMAIN twin.schedule = DOMAIN schedule
    /\ \A t \in DOMAIN schedule : Undated(twin.schedule[t]) = Undated(schedule[t])

\* A topic reviewed twice, in one run before it fell due and in the other when it
\* was due; the two runs never shared a clock reading.
C28_Witness ==
    /\ \E t \in DOMAIN schedule :
          /\ t \in DOMAIN twin.schedule
          /\ schedule[t].total_reviews = 2
          /\ schedule[t].last_review > schedule[t].quality_history[1].timestamp
          /\ twin.schedule[t].last_review = twin.schedule[t].quality_history[1].timestamp
          /\ twin.schedule[t].next_review # schedule[t].next_review
    /\ twin.now # now

\* The p_known an Update of topic t starts from.
KnownBefore(t) ==
    IF t \in DOMAIN progress THEN progress[t].p_known ELSE DefaultTopicState.p_known

\* C37: an Update with a correct answer never lowers the topic's p_known and one
\* with a wrong answer never raises it; the reported change is >= 0, resp. <= 0.
C37_AnswerMovesMasteryItsWay ==
    [][Returned("update") =>
          LET t == result'.topic
          IN /\ result'.old_mastery = KnownBefore(t)
             /\ result'.new_mastery = progress'[t].p_known
             /\ result'.change = progress'[t].p_known - KnownBefore(t)
             /\ result'.is_correct => progress'[t].p_known >= KnownBefore(t) /\ result'.change >= 0
             /\ ~result'.is_correct => progress'[t].p_known <= KnownBefore(t) /\ result'.change <= 0]_vars

\* A wrong answer on a topic that stood at the upper clamp, as the last answer the
\* bound allows, has lowered it.
C37_Witness ==
    /\ result.op = "update" /\ ~result.is_correct
    /\ result.old_mastery = P_MAX /\ result.change < 0
    /\ result.attempts = MaxDrillAttempts

\* The topics whose stored p_known is at least 0.95.
MasteredSet == {t \in DOMAIN progress : progress[t].p_known >= MASTERY_THRESHOLD}

\* C38: from every reachable state of a topic, a run of correct Updates on it makes
\* it mastered (three in a row always suffice): p_known >= 0.95, reported
\* mastered=true, counted as mastered by Status; and it stays mastered while every
\* further Update on it is correct.
C38_CorrectRunMasters ==
    /\ [](\A t \in DOMAIN progress : StreakOf(t) >= 3 => t \in MasteredSet)
    /\ [][/\ Returned("update") =>
              /\ result'.mastered <=> result'.topic \in MasteredSet'
              /\ result'.is_correct /\ result'.topic \in MasteredSet =>
                    result'.topic \in MasteredSet' /\ result'.mastered
              /\ result'.is_correct /\ streak'[result'.topic] >= 3 => result'.mastered
          /\ Returned("status") => result'.mastered = Cardinality(MasteredSet)]_vars

\* After four wrong answers the third correct answer in a row has made the topic
\* mastered, and not before; another topic was answered wrongly meanwhile.
C38_Witness ==
    /\ result.op = "update" /\ result.topic = DrillTopic /\ result.mastered
    /\ result.old_mastery < MASTERY_THRESHOLD
    /\ StreakOf(DrillTopic) = 3
    /\ progress[DrillTopic].attempts = 7 /\ progress[DrillTopic].correct = 3
    /\ \E t \in DOMAIN progress : t # DrillTopic /\ StreakOf(t) = 0

\* A record as an accepted review leaves it: reviewed at least once, with the date
\* of the last review and a history.
Reviewed(r) ==
    r.total_reviews >= 1 /\ r.last_review # NoReview /\ r.quality_history # <<>>

QueryOps == {"stats", "due", "upcoming", "next", "queue"}

\* C34: records are created only by an accepted Review: every record has
\* total_reviews >= 1, a last_review and a non-empty quality_history, and no query
\* (GetStats, GetDueTopics, GetUpcomingTopics, GetNextTopic, GetReviewQueue) adds one.
C34_RecordsComeFromReviews ==
    /\ [](/\ \A t \in DOMAIN schedule : Reviewed(schedule[t])
          /\ \A t \in DOMAIN schedule_file : Reviewed(schedule_file[t]))
    /\ [][/\ result'.op \in QueryOps => UNCHANGED <<schedule, schedule_file>>
          /\ ~(DOMAIN schedule' \subseteq DOMAIN schedule) => AcceptedReview
          /\ ~(DOMAIN schedule_file' \subseteq DOMAIN schedule_file) => AcceptedReview
          /\ result'.op = "review" /\ Rejected(result') =>
                UNCHANGED <<schedule, schedule_file>>]_vars

\* Stats were asked for a topic that has no record, beside one that was reviewed
\* twice, and no record was made for it.
C34_Witness ==
    /\ result.op = "stats" /\ ~result.found
    /\ result.topic_id \notin DOMAIN schedule
    /\ result.topic_id \notin DOMAIN schedule_file
    /\ \E t \in DOMAIN schedule : schedule[t].total_reviews = 2

\* C35: get_stats reports 'overdue' exactly when get_due_topics at the same instant
\* contains the topic, the boundary next_review = now included; so every queue
\* entry tagged priority 'overdue' also carries status 'overdue'.
C35_OverdueIsDue ==
    [][/\ Returned("stats") /\ result'.found =>
             (result'.status = "overdue" <=> result'.topic_id \in DueSet)
       /\ Returned("queue") =>
             \A i \in DOMAIN result'.queue :
                 result'.queue[i].priority = "overdue" => result'.queue[i].status = "overdue"]_vars

\* C35 with the boundary as the code has it: the status is 'overdue' exactly when
\* next_review < now, so a topic falling due at this very instant is in the due list
\* with status 'upcoming'; a queue entry tagged 'overdue' carries status 'overdue'
\* unless its next_review is the instant the call started.
C35_OverdueIsPastDue ==
    [][/\ Returned("stats") /\ result'.found =>
             LET next_review == schedule[result'.topic_id].next_review
             IN /\ result'.status = "overdue" <=> next_review < now
                /\ result'.topic_id \in DueSet <=>
                      result'.status = "overdue" \/ next_review = now
       /\ Returned("queue") =>
             \A i \in DOMAIN result'.queue :
                 result'.queue[i].priority = "overdue" =>
                    \/ result'.queue[i].status = "overdue"
                    \/ result'.queue[i].next_review = result'.started]_vars

\* Stats of a topic that falls due at this very instant: it is due and 'upcoming'.
C35_Witness ==
    /\ result.op = "stats" /\ result.found /\ result.status = "upcoming"
    /\ result.topic_id \in DueSet
    /\ schedule[result.topic_id].next_review = now
    /\ \E t \in DueSet : schedule[t].next_review < now

\* C36: GetReviewQueue(limit) with limit at least the number of scheduled topics
\* returns every topic whose next_review is no later than 7 days after the call
\* started, each exactly once, even when the clock advances between the due scan
\* and the upcoming scan.
C36_QueueComplete ==
    [][Returned("queue") /\ result'.limit >= Cardinality(DOMAIN schedule) =>
          LET q == result'.queue
          IN /\ \A t \in DOMAIN schedule :
                   schedule[t].next_review <= result'.started + QUEUE_DAYS * Day =>
                       \E i \in DOMAIN q : q[i].topic_id = t
             /\ \A i, j \in DOMAIN q : q[i].topic_id = q[j].topic_id => i = j]_vars

\* C31: after Review(t) at time T, next_review = last_review + interval with
\* last_review = T and interval > 0, so t is not due at T; once the clock has
\* reached next_review, t is in GetDueTopics, and it stays there until the next
\* Review(t) or Reset(t).
C31_DueFromNextReviewOn ==
    /\ [](\A t \in DOMAIN schedule :
            /\ schedule[t].next_review = schedule[t].last_review + schedule[t].interval
            /\ schedule[t].interval > 0
            /\ schedule[t].last_review <= now)
    /\ [][/\ AcceptedReview =>
               /\ schedule'[result'.topic_id].last_review = now
               /\ now' = now
               /\ result'.topic_id \notin DueSet'
          /\ Returned("due") /\ result'.limit = NoLimit =>
               {result'.due[i][1] : i \in DOMAIN result'.due} = DueSet
          /\ \A t \in DueSet :
               t \notin DueSet' =>
                  \/ AcceptedReview /\ result'.topic_id = t
                  \/ Returned("reset") /\ result'.topic_id = t /\ result'.deleted]_vars

\* A topic reviewed at the start was not due then, has fallen due exactly now with
\* the clock's advance, and is listed by GetDueTopics.
C31_Witness ==
    /\ result.op = "due" /\ result.limit = NoLimit
    /\ \E i \in DOMAIN result.due :
          LET t == result.due[i][1]
          IN /\ schedule[t].last_review = StartTime
             /\ schedule[t].next_review = now
             /\ now > StartTime

\* The number of successful reviews (quality >= 3) at the end of history h.
PassRun(h) ==
    LET run[i \in 0..Len(h)] ==
            IF i = 0 THEN 0
            ELSE IF h[i].quality >= 3 THEN run[i - 1] + 1 ELSE 0
    IN run[Len(h)]

\* What the history of every record says of its repetitions: they are the successes
\* at its end where it reaches back to the last failure or to the creation, and at
\* least the twenty it holds where it was trimmed.
C32_RepetitionsInHistory ==
    \A t \in DOMAIN schedule :
        LET r == schedule[t]
            h == r.quality_history
        IN /\ r.repetitions <= r.total_reviews
           /\ r.repetitions >= PassRun(h)
           /\ PassRun(h) < Len(h) \/ Len(h) = r.total_reviews => r.repetitions = PassRun(h)

\* The count review by review: none on creation or after a failure, one more
\* after a success.
C32_RepetitionsCounted ==
    AcceptedReview =>
        LET t == result'.topic_id
            before == IF t \in DOMAIN schedule THEN schedule[t].repetitions ELSE 0
        IN schedule'[t].repetitions = IF result'.quality >= 3 THEN before + 1 ELSE 0

\* C32: a topic's repetitions is the number of consecutive quality >= 3 reviews
\* since its last quality < 3 review, or since the record was created by the first
\* Review (after a Reset); hence repetitions <= total_reviews.
C32_RepetitionsCountPasses ==
    /\ []C32_RepetitionsInHistory
    /\ [][C32_RepetitionsCounted]_vars

\* Twenty-two reviews, the last two successful after a failed one.
C32_Witness ==
    /\ ChainTopic \in DOMAIN schedule
    /\ LET r == schedule[ChainTopic]
           h == r.quality_history
       IN /\ r.total_reviews = 22 /\ r.repetitions = 2
          /\ h[Len(h) - 2].quality < 3

\* A record created by the first review after a reset, reviewed successfully since.
C32_WitnessAfterReset ==
    /\ ChainTopic \in DOMAIN schedule
    /\ now > StartTime
    /\ schedule[ChainTopic].total_reviews = 2
    /\ schedule[ChainTopic].repetitions = 2

\* Every history holds min(total_reviews, 20) entries, the last at last_review.
C33_HistoryLength ==
    \A t \in DOMAIN schedule :
        LET r == schedule[t]
            h == r.quality_history
        IN /\ Len(h) = Min(r.total_reviews, 20)
           /\ Len(h) >= 1
           /\ h[Len(h)].timestamp = r.last_review

\* An accepted review appends its own quality and time as the last entry.
C33_LastEntryIsReview ==
    AcceptedReview =>
        LET r == schedule'[result'.topic_id]
            h == r.quality_history
        IN /\ h[Len(h)] = [quality |-> result'.quality, timestamp |-> now]
           /\ r.last_review = now
           /\ r.total_reviews = ReviewsOf(result'.topic_id) + 1

\* C33: a quality_history holds min(total_reviews, 20) entries, and its last entry
\* carries the quality and the timestamp of the most recent Review, the timestamp
\* being last_review.
C33_HistoryFollowsReviews ==
    /\ []C33_HistoryLength
    /\ [][C33_LastEntryIsReview]_vars

\* The 21st review of a topic, a day after the 20th: twenty entries, the last one
\* of a quality and a time the entry before it does not have.
C33_Witness ==
    /\ result.op = "review" /\ result.status = "ok" /\ result.total_reviews = 21
    /\ LET h == schedule[result.topic_id].quality_history
       IN /\ Len(h) = 20
          /\ h[20].quality = result.quality
          /\ h[20].quality # h[19].quality
          /\ h[20].timestamp > h[19].timestamp

====
